---- MODULE Spec2Model ----
(***************************************************************************)
(* Route computation engine of pathfind-smart-navigator.                   *)
(*                                                                         *)
(* The model follows src/src/lib/pathfinding.ts (the module the page       *)
(* imports as '@/lib/pathfinding'): generateGraph, the PriorityQueue, the  *)
(* Dijkstra loop of findShortestPath, the walk over the previous links and *)
(* the aggregation of distance, time and directions.  The second           *)
(* implementation of findShortestPath, src/unnamed/part_001 (a chain of    *)
(* waypoints, an array scanned for its minimum, generateDirections), is    *)
(* modelled next to it, and so is src/unnamed/part_000, the variant of     *)
(* pathfinding.ts that joins its nodes into a chain; a call runs one of    *)
(* the three (variable impl).                                              *)
(*                                                                         *)
(* Numbers.  The code works on IEEE doubles; the model is fixed point:     *)
(*   - a coordinate is an integer count of grid steps of 0.005 degree     *)
(*     (the amplitude of the waypoint variation, 0.01 * (random - 0.5)),   *)
(*   - a distance is an integer count of 0.01 km,                          *)
(*   - an edge weight is an integer count of 0.00001 km (distance * 1000), *)
(*   - Math.random() is a percentage drawn from RandomDraws,               *)
(*   - Infinity is the value Infinity, absorbing under addition,           *)
(*   - NaN is the value NaN: it propagates through arithmetic, every       *)
(*     comparison with it is false, and it is falsy,                       *)
(*   - null is the string NULL, which is no node id.                       *)
(* The haversine formula is taken in its small-angle form at the equator   *)
(* (all locations of the model lie on or next to the equator).             *)
(***************************************************************************)
EXTENDS Integers, Sequences, FiniteSets, Bags, TLC

VARIABLES
    impl,          \* per call: the implementation of findShortestPath it runs
    pc,            \* per call: position in findShortestPath
    source,        \* per call: argument source
    destination,   \* per call: argument destination
    routeType,     \* per call: argument routeType
    nodes,         \* per call: nodes of generateGraph
    edges,         \* per call: edges of generateGraph
    graph,         \* per call: adjacency list (node id -> neighbours)
    distances,     \* per call: Map distances
    previous,      \* per call: Map previous
    pq,            \* per call: PriorityQueue.items
    visited,       \* per call: Set visited (part_001)
    queue,         \* per call: array queue (part_001)
    currentId,     \* per call: cursor of the path reconstruction
    path,          \* per call: reconstructed path
    totalDistance, \* per call: local totalDistance (0.01 km), before formatting
    result,        \* per call: returned RouteResult, or NULL
    inputBearing,  \* a bearing in degrees handed to the compass quantisation
    compass,       \* the index and label computed from it, or NoCompass
    lastOp,        \* PriorityQueue on its own: the last operation and its outcome
    pending,       \* PriorityQueue on its own: the enqueues not yet returned
    searchQuery,   \* RouteControls: state searchQuery
    searchResults, \* RouteControls: state searchResults
    isSearching,   \* RouteControls: state isSearching
    showResults,   \* RouteControls: state showResults
    searchTimeout, \* RouteControls: the timer of the search effect
    searches,      \* RouteControls: the queries of the searchLocations calls awaited
    lastResponse,  \* RouteControls: the last searchLocations call that settled
    pageSource,    \* Index: state source
    pageDestination, \* Index: state destination
    pageRouteType, \* Index: state routeType
    route,         \* Index: state route
    isCalculating, \* Index: state isCalculating
    selectionMode, \* Index: state selectionMode
    calculation,   \* Index: the handleCalculateRoute calls in progress
    lastClick      \* RouteMap: the map click just handled and what it found

\* The variables of the calls of findShortestPath.
callVars == << impl, pc, source, destination, routeType, nodes, edges, graph,
               distances, previous, pq, visited, queue, currentId, path,
               totalDistance, result >>

\* The variables of the search box of RouteControls.
searchVars == << searchQuery, searchResults, isSearching, showResults,
                 searchTimeout, searches, lastResponse >>

\* The variables of the page Index.
pageVars == << pageSource, pageDestination, pageRouteType, route,
               isCalculating, selectionMode, calculation, lastClick >>

\* The variables outside the calls of findShortestPath and the compass: the
\* PriorityQueue taken on its own (its items are pq[1]), search box and page.
otherVars == << lastOp, pending, searchVars, pageVars >>

vars == << callVars, inputBearing, compass, otherVars >>

-----------------------------------------------------------------------------
(* Bounds of the model *)

\* The reconstruction walk is followed for at most this many nodes.
MaxPathLen == 8

\* A solver loop that runs alone is followed for at most this many passes.
MaxPasses == 30

\* Calls of findShortestPath that may be in progress together.
Calls == {1, 2}

NULL == "null"

\* Stands for the double Infinity: larger than every finite weight sum.
Infinity == 2000000000

\* Stands for the double NaN (parseFloat of a geocoder answer without a number).
NaN == -2000000000

\* Values of Math.random(), in percent (0 <= random < 1).
RandomDraws == {0, 50, 99}

-----------------------------------------------------------------------------
(* Arithmetic helpers *)

Abs(x) == IF x < 0 THEN -x ELSE x

\* Math.round(a / b) for b > 0: the nearest integer, halves towards +Infinity.
RoundDiv(a, b) == (a + (b \div 2)) \div b

RECURSIVE SqrtSearch(_, _, _)
SqrtSearch(n, lo, hi) ==
    IF lo >= hi THEN lo
    ELSE LET mid == (lo + hi + 1) \div 2
         IN  IF mid * mid <= n THEN SqrtSearch(n, mid, hi)
                               ELSE SqrtSearch(n, lo, mid - 1)

\* Math.sqrt on the fixed-point grid: the square root rounded up to the next
\* unit, so that the triangle inequality of the distances survives the
\* rounding (ceil(a) + ceil(b) >= ceil(c) whenever a + b >= c).
ISqrt(n) ==
    LET r == SqrtSearch(n, 0, 46340)
    IN  IF r * r = n THEN r ELSE r + 1

\* Addition of doubles: NaN propagates, Infinity absorbs.
Plus(a, b) ==
    IF a = NaN \/ b = NaN THEN NaN
    ELSE IF a >= Infinity \/ b >= Infinity THEN Infinity
    ELSE a + b

\* a < b on doubles: false when either is NaN.
LessThan(a, b) == a # NaN /\ b # NaN /\ a < b

\* JavaScript (x || Infinity): 0 and NaN are falsy.
OrInfinity(x) == IF x = 0 \/ x = NaN THEN Infinity ELSE x

\* JavaScript (x || 0): 0 and NaN are falsy.
OrZero(x) == IF x = 0 \/ x = NaN THEN 0 ELSE x

\* Math.max and Math.min: NaN when an argument is NaN.
mathMax(a, b) == IF a = NaN \/ b = NaN THEN NaN ELSE IF a > b THEN a ELSE b
mathMin(a, b) == IF a = NaN \/ b = NaN THEN NaN ELSE IF a < b THEN a ELSE b

\* Math.floor(a / b) for b > 0.
floorDiv(a, b) == IF a = NaN THEN NaN ELSE a \div b

-----------------------------------------------------------------------------
(* Locations the caller may pass (bounded input set).  Grid steps of 0.005 *)
(* degree: latitude 18000 is 90 degrees, longitude 36000 is 180 degrees.   *)

\* Grid steps per degree: the variation 0.01 * (Math.random() - 0.5) spans
\* half a hundredth of a degree on either side.
GridPerDegree == 200

MaxLat == 90 * GridPerDegree
MaxLng == 180 * GridPerDegree

Home == [lat |-> 0, lng |-> 35400, name |-> "Home"]
\* 0.01 degree north and east of Home (about 1.6 km).
Near == [lat |-> 2, lng |-> 35402, name |-> "Near"]
\* 3 degrees east of Home (about 333 km), on the antimeridian.
Far  == [lat |-> 0, lng |-> 36000, name |-> "Far"]
\* One grid step (0.005 degree, about 0.56 km) east of Home.
Step == [lat |-> 0, lng |-> 35401, name |-> "Step"]
\* 180.005 degrees east: not a valid longitude.
Off  == [lat |-> 0, lng |-> 36001, name |-> "Off"]
\* A location whose latitude was parsed to NaN.
Lost == [lat |-> NaN, lng |-> 35400, name |-> "Lost"]

Locations == {Home, Near, Step, Far, Off, Lost}

\* The (source, destination) arguments of the calls that are checked.
RoutePairs ==
    { << Home, Home >>, << Home, Near >>, << Near, Home >>, << Home, Step >>,
      << Home, Far >>, << Far, Off >>, << Home, Lost >>, << Lost, Home >> }

RouteTypes == {"shortest", "safest"}

\* The precondition of the entry point: latitude in [-90, 90], longitude in
\* [-180, 180].
ValidCoordinate(l) ==
    /\ -MaxLat <= l.lat /\ l.lat <= MaxLat
    /\ -MaxLng <= l.lng /\ l.lng <= MaxLng

SameCoordinate(a, b) == a.lat = b.lat /\ a.lng = b.lng

-----------------------------------------------------------------------------
(* Geo-math utilities *)

\* (R * toRadians(0.005 degree) * 100) ^ 2 with R = 6371 km: the square of the
\* length of one grid step in units of 0.01 km (55.597 ^ 2).
GridStepSq == 3091

\* Haversine distance in units of 0.01 km.  For the small angles of the model
\* 2 * atan2(sqrt(a), sqrt(1 - a)) is sqrt(dLat^2 + dLon^2) radians.
calculateDistance(lat1, lon1, lat2, lon2) ==
    LET dLat == lat2 - lat1
        dLon == lon2 - lon1
    IN  IF lat1 = NaN \/ lon1 = NaN \/ lat2 = NaN \/ lon2 = NaN THEN NaN
        ELSE ISqrt(GridStepSq * (dLat * dLat + dLon * dLon))

\* atan(y / x) in degrees for 0 <= y <= x, x > 0, rounded to a degree
\* (45 t + 15.64 t (1 - t), exact to a quarter of a degree).
AtanDeg(y, x) == RoundDiv(4500 * y * x + 1564 * y * (x - y), 100 * x * x)

\* Math.atan2(y, x) * 180 / Math.PI, rounded to a degree, in (-180, 180];
\* atan2(0, 0) is 0.
Atan2Deg(y, x) ==
    LET ay == Abs(y)
        ax == Abs(x)
        first == IF ay = 0 /\ ax = 0 THEN 0
                 ELSE IF ay <= ax THEN AtanDeg(ay, ax)
                 ELSE 90 - AtanDeg(ax, ay)
        upper == IF x >= 0 THEN first ELSE 180 - first
    IN  IF y >= 0 THEN upper ELSE -upper

\* (... + 360) % 360: a bearing lies in [0, 360).
FullTurn == 360

compassLabels ==
    << "North", "Northeast", "East", "Southeast",
       "South", "Southwest", "West", "Northwest" >>

\* Mutant: the bearing is truncated to its sector, not rounded.
bearingIndexFloor(bearing) == (bearing \div 45) % 8

\* The quantisation of a bearing in degrees: round(bearing / 45) % 8.
bearingIndex(bearing) == RoundDiv(bearing, 45) % 8

\* calculateBearing: y = sin(dLon) cos(lat2), x = cos(lat1) sin(lat2) -
\* sin(lat1) cos(lat2) cos(dLon); at the equator and for small angles y is
\* dLon and x is dLat.
calculateBearing(lat1, lon1, lat2, lon2) ==
    LET y == lon2 - lon1
        x == lat2 - lat1
        degrees == (Atan2Deg(y, x) + FullTurn) % FullTurn
    IN  IF lat1 = NaN \/ lon1 = NaN \/ lat2 = NaN \/ lon2 = NaN
        THEN "undefined"   \* directions[NaN]
        ELSE compassLabels[bearingIndex(degrees) + 1]

-----------------------------------------------------------------------------
(* Graph synthesis: generateGraph *)

waypointIds ==
    << "waypoint_1", "waypoint_2", "waypoint_3", "waypoint_4",
       "waypoint_5", "waypoint_6", "waypoint_7" >>

waypointNames ==
    << "Waypoint 1", "Waypoint 2", "Waypoint 3", "Waypoint 4",
       "Waypoint 5", "Waypoint 6", "Waypoint 7" >>

\* One step of the waypoint spacing, 100 km, in units of 0.01 km.
SpacingKm == 10000
MinWaypoints == 2
MaxWaypoints == 8

\* numWaypoints = Math.min(Math.max(Math.floor(distance / 100), 2), 8)
numWaypoints(src, dst) ==
    LET distance == calculateDistance(src.lat, src.lng, dst.lat, dst.lng)
    IN  mathMin(mathMax(floorDiv(distance, SpacingKm), MinWaypoints), MaxWaypoints)

\* The loop "for (let i = 1; i < numWaypoints; i++)" runs this many times
\* (never when numWaypoints is NaN).
waypointCount(src, dst) ==
    LET n == numWaypoints(src, dst) IN IF n = NaN THEN 0 ELSE n - 1

\* variation = 0.01 * (Math.random() - 0.5) degrees, in grid steps of 0.005
\* degree: (r - 50) / 50, rounded to the grid.
variation(r) == RoundDiv(r - 50, 50)

\* The i-th waypoint; r is the value of Math.random() drawn for it.
waypoint(src, dst, i, r) ==
    LET n == numWaypoints(src, dst)
        lat == src.lat + RoundDiv((dst.lat - src.lat) * i, n)
        lng == src.lng + RoundDiv((dst.lng - src.lng) * i, n)
    IN  [id |-> waypointIds[i], lat |-> lat + variation(r),
         lng |-> lng + variation(r), name |-> waypointNames[i]]

\* Mutant: the variation drawn for the first waypoint moves the destination
\* node as well.
graphNodesMoved(src, dst, jitter) ==
    LET v == IF waypointCount(src, dst) >= 1 THEN variation(jitter[1]) ELSE 0
    IN  << [id |-> "source", lat |-> src.lat, lng |-> src.lng, name |-> src.name],
           [id |-> "destination", lat |-> dst.lat + v, lng |-> dst.lng + v,
            name |-> dst.name] >>
        \o [i \in 1..waypointCount(src, dst) |-> waypoint(src, dst, i, jitter[i])]

\* Mutant: the variation drawn for the first waypoint moves the source node
\* as well.
graphNodesSourceMoved(src, dst, jitter) ==
    LET v == IF waypointCount(src, dst) >= 1 THEN variation(jitter[1]) ELSE 0
    IN  << [id |-> "source", lat |-> src.lat + v, lng |-> src.lng + v,
            name |-> src.name],
           [id |-> "destination", lat |-> dst.lat, lng |-> dst.lng,
            name |-> dst.name] >>
        \o [i \in 1..waypointCount(src, dst) |-> waypoint(src, dst, i, jitter[i])]

\* nodes.push(sourceNode, destNode), then the waypoints in index order.
graphNodes(src, dst, jitter) ==
    << [id |-> "source", lat |-> src.lat, lng |-> src.lng, name |-> src.name],
       [id |-> "destination", lat |-> dst.lat, lng |-> dst.lng, name |-> dst.name] >>
    \o [i \in 1..waypointCount(src, dst) |-> waypoint(src, dst, i, jitter[i])]

\* The index pairs (i, j), i < j, in the order of the two nested loops.
RECURSIVE pairsFrom(_, _, _)
pairsFrom(i, j, n) ==
    IF i >= n THEN << >>
    ELSE IF j > n THEN pairsFrom(i + 1, i + 2, n)
    ELSE << << i, j >> >> \o pairsFrom(i, j + 1, n)

edgePairs(n) == pairsFrom(1, 2, n)

\* Mutant: under 'safest' the weight is dist * (1 - safetyFactor).
edgeWeightDiscounted(dist, rt, r) ==
    IF dist = NaN THEN NaN
    ELSE IF rt = "safest" THEN dist * (1000 - (800 + 4 * r))
    ELSE dist * 1000

\* Mutant: every weight carries the largest safety penalty, whatever the
\* route type is.
edgeWeightPenalised(dist, rt, r) == IF dist = NaN THEN NaN ELSE dist * 1200

\* weight = dist for 'shortest'; for 'safest' safetyFactor = 0.8 + random * 0.4
\* and weight = dist * (2 - safetyFactor).  In units of 0.00001 km.
edgeWeight(dist, rt, r) ==
    IF dist = NaN THEN NaN
    ELSE IF rt = "safest" THEN dist * (2000 - (800 + 4 * r))
    ELSE dist * 1000

\* Mutant: the edge ends at the node it starts from.
graphEdgeLoop(node1, node2, rt, r) ==
    LET dist == calculateDistance(node1.lat, node1.lng, node2.lat, node2.lng)
    IN  [from |-> node1.id, to |-> node1.id,
         weight |-> edgeWeight(dist, rt, r), distance |-> dist]

graphEdge(node1, node2, rt, r) ==
    LET dist == calculateDistance(node1.lat, node1.lng, node2.lat, node2.lng)
    IN  [from |-> node1.id, to |-> node2.id,
         weight |-> edgeWeight(dist, rt, r), distance |-> dist]

\* Every pair of nodes is connected (complete graph).  safety[k] is the value
\* of Math.random() drawn for the k-th edge (used under 'safest' only).
graphEdges(ns, rt, safety) ==
    LET pairs == edgePairs(Len(ns))
    IN  [k \in 1..Len(pairs) |->
            graphEdge(ns[pairs[k][1]], ns[pairs[k][2]], rt, safety[k])]

generateGraph(src, dst, rt, jitter, safety) ==
    LET ns == graphNodes(src, dst, jitter)
    IN  [nodes |-> ns, edges |-> graphEdges(ns, rt, safety)]

\* Number of edges of the complete graph on the synthesized nodes.
edgeCount(src, dst) ==
    LET n == waypointCount(src, dst) + 2 IN (n * (n - 1)) \div 2

-----------------------------------------------------------------------------
(* PriorityQueue *)

\* Array.prototype.sort with (a, b) => a.priority - b.priority is stable: an
\* item moves in front of the items of strictly greater priority only.
\* Mutant: the queue is not sorted after a push (first in, first out).
insertLast(sorted, item) == Append(sorted, item)

RECURSIVE insertSorted(_, _)
insertSorted(sorted, item) ==
    IF sorted = << >> THEN << item >>
    ELSE LET last == sorted[Len(sorted)]
         IN  IF last.priority > item.priority
             THEN Append(insertSorted(SubSeq(sorted, 1, Len(sorted) - 1), item), last)
             ELSE Append(sorted, item)

RECURSIVE sortByPriority(_)
sortByPriority(items) ==
    IF items = << >> THEN << >>
    ELSE insertSorted(sortByPriority(SubSeq(items, 1, Len(items) - 1)),
                      items[Len(items)])

\* enqueue: items.push({element, priority}); items.sort(...)
enqueue(items, element, priority) ==
    sortByPriority(Append(items, [element |-> element, priority |-> priority]))

\* Mutant: items.pop()?.element, the last item of the array.
dequeueElementLast(items) ==
    IF items = << >> THEN NULL ELSE items[Len(items)].element

\* dequeue: items.shift()?.element; the element is NULL (undefined) when empty.
dequeueElement(items) == IF items = << >> THEN NULL ELSE items[1].element
dequeueRest(items) == IF items = << >> THEN << >> ELSE Tail(items)

isEmpty(items) == Len(items) = 0

-----------------------------------------------------------------------------
(* findShortestPath: adjacency list and solver *)

nodeIds(ns) == {ns[i].id : i \in 1..Len(ns)}

\* Mutant: an edge is entered under its from node only.
RECURSIVE addEdgesOneWay(_, _, _)
addEdgesOneWay(g, es, k) ==
    IF k > Len(es) THEN g
    ELSE LET e == es[k]
             g1 == IF e.from \in DOMAIN g
                   THEN [g EXCEPT ![e.from] = Append(@,
                           [nodeId |-> e.to, weight |-> e.weight, distance |-> e.distance])]
                   ELSE g
         IN  addEdgesOneWay(g1, es, k + 1)

\* graph.get(edge.from)?.push({nodeId: edge.to, ...});
\* graph.get(edge.to)?.push({nodeId: edge.from, ...}), edge by edge.
RECURSIVE addEdges(_, _, _)
addEdges(g, es, k) ==
    IF k > Len(es) THEN g
    ELSE LET e == es[k]
             g1 == IF e.from \in DOMAIN g
                   THEN [g EXCEPT ![e.from] = Append(@,
                           [nodeId |-> e.to, weight |-> e.weight, distance |-> e.distance])]
                   ELSE g
             g2 == IF e.to \in DOMAIN g1
                   THEN [g1 EXCEPT ![e.to] = Append(@,
                           [nodeId |-> e.from, weight |-> e.weight, distance |-> e.distance])]
                   ELSE g1
         IN  addEdges(g2, es, k + 1)

adjacency(ns, es) == addEdges([id \in nodeIds(ns) |-> << >>], es, 1)

initialDistances(ns) == [id \in nodeIds(ns) |-> IF id = "source" THEN 0 ELSE Infinity]
initialPrevious(ns) == [id \in nodeIds(ns) |-> NULL]

\* The test of the relaxation:
\* altDistance < (distances.get(neighbor.nodeId) || Infinity)
improves(altDistance, stored) == LessThan(altDistance, OrInfinity(stored))

\* The loop "for (const neighbor of neighbors)" from the k-th neighbour on;
\* st is [distances, previous, pq].
RECURSIVE relax(_, _, _, _)
relax(st, currentNodeId, neighbors, k) ==
    IF k > Len(neighbors) THEN st
    ELSE LET neighbor == neighbors[k]
             altDistance == Plus(OrZero(st.distances[currentNodeId]), neighbor.weight)
         IN  IF improves(altDistance, st.distances[neighbor.nodeId])
             THEN relax([distances |-> [st.distances EXCEPT ![neighbor.nodeId] = altDistance],
                         previous  |-> [st.previous EXCEPT ![neighbor.nodeId] = currentNodeId],
                         pq        |-> enqueue(st.pq, neighbor.nodeId, altDistance)],
                        currentNodeId, neighbors, k + 1)
             ELSE relax(st, currentNodeId, neighbors, k + 1)

-----------------------------------------------------------------------------
(* findShortestPath: reconstruction, totals, directions, result *)

\* nodes.find(n => n.id === id): the first node with that id, as a sequence
\* of length 0 (undefined) or 1.
RECURSIVE findNode(_, _, _)
findNode(ns, id, k) ==
    IF k > Len(ns) THEN << >>
    ELSE IF ns[k].id = id THEN << ns[k] >>
    ELSE findNode(ns, id, k + 1)

\* Mutant: the node is put in front of the path twice.
unshiftTwice(p, found) == found \o found \o p

\* Mutant: path.push(node) in place of path.unshift(node).
pushInstead(p, found) == p \o found

\* path.unshift(node) when a node was found.
unshift(p, found) == found \o p

\* Mutant: the predecessor is never found.
previousNone(prev, id) == NULL

\* previous.get(id) || null
previousOf(prev, id) == IF id \in DOMAIN prev THEN prev[id] ELSE NULL

\* Sum of calculateDistance over the segments i .. last of a path.
RECURSIVE segmentsDistance(_, _, _)
segmentsDistance(p, i, last) ==
    IF i > last THEN 0
    ELSE Plus(calculateDistance(p[i].lat, p[i].lng, p[i + 1].lat, p[i + 1].lng),
              segmentsDistance(p, i + 1, last))

\* Mutant: the loop stops one segment early (i < path.length - 2).
pathDistanceOffByOne(p, i) == segmentsDistance(p, i, Len(p) - 2)

\* for (let i = 0; i < path.length - 1; i++) totalDistance += ...
pathDistance(p, i) == segmentsDistance(p, i, Len(p) - 1)

lowerCase(label) ==
    CASE label = "North" -> "north"
      [] label = "Northeast" -> "northeast"
      [] label = "East" -> "east"
      [] label = "Southeast" -> "southeast"
      [] label = "South" -> "south"
      [] label = "Southwest" -> "southwest"
      [] label = "West" -> "west"
      [] label = "Northwest" -> "northwest"
      [] OTHER -> label

\* Math.round(x * 10) / 10 of a distance in 0.01 km: a count of 0.1 km.
roundTenth(d) == IF d = NaN THEN NaN ELSE RoundDiv(d, 10)

\* The body of the direction loop for index i (0-based in the code, so the
\* segment runs from p[i + 1] to p[i + 2] here).
directionAt(p, i) ==
    LET current == p[i + 1]
        next == p[i + 2]
        distance == calculateDistance(current.lat, current.lng, next.lat, next.lng)
        bearing == calculateBearing(current.lat, current.lng, next.lat, next.lng)
        instruction ==
            IF i = 0 THEN "Start your journey from " \o current.name
            ELSE IF i = Len(p) - 2 THEN "Arrive at " \o next.name
            ELSE "Continue " \o lowerCase(bearing) \o " towards " \o next.name
    IN  [instruction |-> instruction, distance |-> roundTenth(distance),
         direction |-> bearing]

\* for (let i = 0; i < path.length - 1; i++) directions.push(...)
inlineDirections(p) ==
    IF Len(p) < 2 THEN << >>
    ELSE [k \in 1..(Len(p) - 1) |-> directionAt(p, k - 1)]

\* Math.round(totalDistance * 1.2), totalDistance in 0.01 km.
travelMinutes(total) == IF total = NaN THEN NaN ELSE RoundDiv(total * 12, 1000)

\* Number.prototype.toString of a count of tenths: "333.6", "5", "0".
formatTenths(t) ==
    IF t = NaN THEN "NaN"
    ELSE IF t % 10 = 0 THEN ToString(t \div 10)
    ELSE ToString(t \div 10) \o "." \o ToString(t % 10)

formatInteger(n) == IF n = NaN THEN "NaN" ELSE ToString(n)

routeResult(p, total) ==
    [path |-> p,
     totalDistance |-> formatTenths(roundTenth(total)) \o " km",
     totalTime |-> formatInteger(travelMinutes(total)) \o " min",
     algorithm |-> "Dijkstra's",
     directions |-> inlineDirections(p)]

NoResult ==
    [path |-> << >>, totalDistance |-> "", totalTime |-> "",
     algorithm |-> "", directions |-> << >>]

NoLocation == [lat |-> 0, lng |-> 0, name |-> ""]

-----------------------------------------------------------------------------
(* searchLocations.  A text is a sequence of one-character strings.         *)

UpperLetters == << "A", "B", "C", "D", "E", "F", "G", "H", "I", "J", "K", "L", "M", "N", "O", "P", "Q", "R", "S", "T", "U", "V", "W", "X", "Y", "Z" >>
LowerLetters == << "a", "b", "c", "d", "e", "f", "g", "h", "i", "j", "k", "l", "m", "n", "o", "p", "q", "r", "s", "t", "u", "v", "w", "x", "y", "z" >>

\* String.prototype.toLowerCase
toLowerCase(text) ==
    [k \in 1..Len(text) |->
        IF \E u \in 1..Len(UpperLetters) : UpperLetters[u] = text[k]
        THEN LowerLetters[CHOOSE u \in 1..Len(UpperLetters) : UpperLetters[u] = text[k]]
        ELSE text[k]]

RECURSIVE trimStart(_)
trimStart(text) ==
    IF text # << >> /\ text[1] = " " THEN trimStart(Tail(text)) ELSE text

RECURSIVE trimEnd(_)
trimEnd(text) ==
    IF text # << >> /\ text[Len(text)] = " "
    THEN trimEnd(SubSeq(text, 1, Len(text) - 1))
    ELSE text

\* String.prototype.trim
trim(text) == trimEnd(trimStart(text))

\* String.prototype.includes
includes(text, part) ==
    \E k \in 0..(Len(text) - Len(part)) : SubSeq(text, k + 1, k + Len(part)) = part

\* Array.prototype.filter on names: the entries whose name contains the query,
\* case-insensitively, in their order.
RECURSIVE filterByName(_, _)
filterByName(locations, query) ==
    IF locations = << >> THEN << >>
    ELSE LET rest == filterByName(Tail(locations), query)
         IN  IF includes(toLowerCase(locations[1].name), toLowerCase(query))
             THEN << locations[1] >> \o rest
             ELSE rest

\* The sample cities of the fallback (coordinates in grid steps).
sampleLocations ==
    << [lat |-> 8143, lng |-> -14801, category |-> "city",
        name |-> << "N", "e", "w", " ", "Y", "o", "r", "k", " ", "C", "i", "t", "y", ",", " ", "U", "S", "A" >>],
       [lat |-> 10301, lng |-> -26, category |-> "city",
        name |-> << "L", "o", "n", "d", "o", "n", ",", " ", "U", "K" >>],
       [lat |-> 7135, lng |-> 27930, category |-> "city",
        name |-> << "T", "o", "k", "y", "o", ",", " ", "J", "a", "p", "a", "n" >>],
       [lat |-> 9771, lng |-> 470, category |-> "city",
        name |-> << "P", "a", "r", "i", "s", ",", " ", "F", "r", "a", "n", "c", "e" >>],
       [lat |-> -6774, lng |-> 30242, category |-> "city",
        name |-> << "S", "y", "d", "n", "e", "y", ",", " ", "A", "u", "s", "t", "r", "a", "l", "i", "a" >>] >>

\* A number field of the geocoder's JSON is a text: digits (of the value
\* given), or something else.
parseFloat(text) == IF text.digits THEN text.value ELSE NaN

\* An entry of the geocoder's answer: no type, and a latitude that is not a
\* number.
OddItem ==
    [lat |-> [digits |-> FALSE, value |-> 0],
     lon |-> [digits |-> TRUE, value |-> 470], type |-> "",
     display_name |-> << "P", "a", "r", "i", "s" >>]

\* What the geocoding request comes to: fetch rejects, the status is not ok,
\* the JSON is not an array, or it is an array of entries.
Responses ==
    { [kind |-> "failed", data |-> << >>],
      [kind |-> "notOk", data |-> << >>],
      [kind |-> "notArray", data |-> << >>],
      [kind |-> "ok", data |-> << OddItem >>] }

\* The Location built from one entry of the answer.
itemLocation(i, item) ==
    IF i = "part_001"
    THEN [lat |-> parseFloat(item.lat), lng |-> parseFloat(item.lon),
          name |-> item.display_name]
    ELSE [lat |-> parseFloat(item.lat), lng |-> parseFloat(item.lon),
          name |-> item.display_name,
          category |-> IF item.type = "" THEN "location" ELSE item.type]

\* The try block: fetch, the response.ok test, response.json(), data.map.
fetchAndMap(i, response) ==
    IF response.kind = "ok"
    THEN [state |-> "returned",
          value |-> [k \in 1..Len(response.data) |-> itemLocation(i, response.data[k])]]
    ELSE [state |-> "thrown", value |-> << >>]

\* Mutant: the error leaves searchLocations.
searchRethrow(i, query) == [state |-> "rejected", value |-> << >>]

\* The catch block.
searchFallback(i, query) ==
    [state |-> "fulfilled",
     value |-> IF i = "part_001" THEN << >> ELSE filterByName(sampleLocations, query)]

\* The promise searchLocations(query) settles to, the request having come to
\* response.
searchLocations(i, query, response) ==
    IF i = "part_001" /\ trim(query) = << >>
    THEN [state |-> "fulfilled", value |-> << >>]
    ELSE LET attempt == fetchAndMap(i, response)
         IN  IF attempt.state = "thrown"
             THEN searchFallback(i, query)
             ELSE [state |-> "fulfilled", value |-> attempt.value]

\* A sequence with its k-th entry taken out (a call that is over, an item
\* that has left).
without(entries, k) ==
    SubSeq(entries, 1, k - 1) \o SubSeq(entries, k + 1, Len(entries))

NoTimeout == [armed |-> FALSE, query |-> << >>]

NoResponse ==
    [query |-> << >>, typed |-> << >>, response |-> "", state |-> "",
     value |-> << >>]

NoClick == [clicked |-> FALSE, latlng |-> NULL, mode |-> NULL,
            source |-> NoLocation, destination |-> NoLocation]

-----------------------------------------------------------------------------
(* src/unnamed/part_001: chain of waypoints, array queue, generateDirections *)

waypointIds1 ==
    << "waypoint-1", "waypoint-2", "waypoint-3", "waypoint-4",
       "waypoint-5", "waypoint-6", "waypoint-7" >>

\* One step of the waypoint spacing of part_001, 50 km, in units of 0.01 km.
SpacingKm1 == 5000
MinWaypoints1 == 3

\* numWaypoints = Math.max(3, Math.floor(calculateDistance(...) / 50))
numWaypoints1(src, dst) ==
    mathMax(MinWaypoints1,
            floorDiv(calculateDistance(src.lat, src.lng, dst.lat, dst.lng), SpacingKm1))

waypointCount1(src, dst) ==
    LET n == numWaypoints1(src, dst) IN IF n = NaN THEN 0 ELSE n - 1

\* name || fallback: the empty string is falsy.
orName(name, fallback) == IF name = "" THEN fallback ELSE name

\* generateRouteWaypoints: source, the interpolated waypoints (no variation),
\* destination, in this order.
generateRouteWaypoints(src, dst) ==
    LET n == numWaypoints1(src, dst)
    IN  << [id |-> "source", lat |-> src.lat, lng |-> src.lng,
            name |-> orName(src.name, "Source")] >>
        \o [i \in 1..waypointCount1(src, dst) |->
              [id |-> waypointIds1[i],
               lat |-> src.lat + RoundDiv((dst.lat - src.lat) * i, n),
               lng |-> src.lng + RoundDiv((dst.lng - src.lng) * i, n),
               name |-> waypointNames[i]]]
        \o << [id |-> "destination", lat |-> dst.lat, lng |-> dst.lng,
               name |-> orName(dst.name, "Destination")] >>

\* safetyWeight = Math.random() * 0.5 + 0.75 under 'safest', else 1.0; in
\* thousandths.
safetyWeight1(rt, r) == IF rt = "safest" THEN 5 * r + 750 ELSE 1000

\* The edges connect consecutive waypoints, from the earlier to the later.
chainEdges(ws, rt, safety) ==
    [i \in 1..(Len(ws) - 1) |->
        [from |-> ws[i].id, to |-> ws[i + 1].id,
         distance |-> calculateDistance(ws[i].lat, ws[i].lng,
                                        ws[i + 1].lat, ws[i + 1].lng),
         safetyWeight |-> safetyWeight1(rt, safety[i])]]

\* weight = routeType === 'shortest' ? edge.distance
\*                                   : edge.distance * edge.safetyWeight
\* in units of 0.00001 km.
edgeWeight1(edge, rt) ==
    IF edge.distance = NaN THEN NaN
    ELSE IF rt = "shortest" THEN edge.distance * 1000
    ELSE edge.distance * edge.safetyWeight

\* queue.reduce((min, node) => !visited.has(node.id) &&
\*   distances.get(node.id) < distances.get(min.id) ? node : min)
RECURSIVE reduceMin(_, _, _, _, _)
reduceMin(q, vis, dist, min, k) ==
    IF k > Len(q) THEN min
    ELSE IF q[k].id \notin vis /\ LessThan(dist[q[k].id], dist[min.id])
         THEN reduceMin(q, vis, dist, q[k], k + 1)
         ELSE reduceMin(q, vis, dist, min, k + 1)

\* queue.splice(queue.indexOf(current), 1)
RECURSIVE spliceOut(_, _)
spliceOut(q, current) ==
    IF q = << >> THEN << >>
    ELSE IF Head(q) = current THEN Tail(q)
    ELSE << Head(q) >> \o spliceOut(Tail(q), current)

\* The test of the relaxation of part_001: newDistance < distances.get(edge.to)
improves1(newDistance, stored) == LessThan(newDistance, stored)

\* edges.filter(edge => edge.from === current.id).forEach(...), from the
\* k-th edge on; st is [distances, previous].
RECURSIVE relax1(_, _, _, _, _, _)
relax1(st, current, es, vis, rt, k) ==
    IF k > Len(es) THEN st
    ELSE LET edge == es[k]
             newDistance == Plus(st.distances[current.id], edgeWeight1(edge, rt))
         IN  IF edge.from = current.id /\ edge.to \notin vis
                /\ improves1(newDistance, st.distances[edge.to])
             THEN relax1([distances |-> [st.distances EXCEPT ![edge.to] = newDistance],
                          previous |-> [st.previous EXCEPT ![edge.to] = current.id]],
                         current, es, vis, rt, k + 1)
             ELSE relax1(st, current, es, vis, rt, k + 1)

\* One pass of "while (queue.length > 0)" of part_001; st is
\* [distances, previous, visited, queue, exit].
solverPass1(es, rt, st) ==
    IF Len(st.queue) = 0 THEN [st EXCEPT !.exit = TRUE]
    ELSE LET current == reduceMin(st.queue, st.visited, st.distances, st.queue[1], 2)
         IN  IF st.distances[current.id] = Infinity THEN [st EXCEPT !.exit = TRUE]
             ELSE LET vis == st.visited \cup {current.id}
                      after == relax1([distances |-> st.distances,
                                       previous |-> st.previous],
                                      current, es, vis, rt, 1)
                  IN  [distances |-> after.distances, previous |-> after.previous,
                       visited |-> vis, queue |-> spliceOut(st.queue, current),
                       exit |-> FALSE]

\* calculateBearing of part_001: the bearing in degrees, in [0, 360).
calculateBearing1(from, to) ==
    IF from.lat = NaN \/ from.lng = NaN \/ to.lat = NaN \/ to.lng = NaN THEN NaN
    ELSE (Atan2Deg(to.lng - from.lng, to.lat - from.lat) + FullTurn) % FullTurn

bearingToDirection(degrees) ==
    IF degrees = NaN THEN "undefined" ELSE compassLabels[bearingIndex(degrees) + 1]

\* Math.round(x * 100) / 100 of a distance: the unit of the model is 0.01 km.
roundHundredth(d) == IF d = NaN THEN NaN ELSE RoundDiv(d * 100, 100)

\* Number.prototype.toFixed(1) of a distance in km: "12.3", "5.0".
toFixed1(d) ==
    IF d = NaN THEN "NaN"
    ELSE LET t == RoundDiv(d, 10)
         IN  ToString(t \div 10) \o "." \o ToString(t % 10)

\* The entry of the interior node p[k] (1 < k < Len(p)).
continueDirection(p, k) ==
    LET prev == p[k - 1]
        current == p[k]
        next == p[k + 1]
        distance == calculateDistance(prev.lat, prev.lng, current.lat, current.lng)
        direction == bearingToDirection(calculateBearing1(current, next))
    IN  [instruction |-> "Continue " \o lowerCase(direction) \o " for "
                         \o toFixed1(distance) \o " km",
         distance |-> roundHundredth(distance),
         direction |-> direction,
         maneuver |-> "continue"]

\* The first entry of generateDirections.
departDirection(p) ==
    [instruction |-> "Start at " \o p[1].name, distance |-> 0,
     direction |-> "start", maneuver |-> "depart"]

\* The last entry of generateDirections.
arriveDirection(p) ==
    LET n == Len(p)
        lastDistance == calculateDistance(p[n - 1].lat, p[n - 1].lng,
                                          p[n].lat, p[n].lng)
    IN  [instruction |-> "Arrive at " \o p[n].name,
         distance |-> roundHundredth(lastDistance),
         direction |-> "arrive", maneuver |-> "arrive"]

\* Mutant: no depart entry, one entry per segment.
generateDirectionsPerSegment(p) ==
    IF Len(p) < 2 THEN << >>
    ELSE [k \in 1..(Len(p) - 2) |-> continueDirection(p, k + 1)]
         \o << arriveDirection(p) >>

generateDirections(p) ==
    IF Len(p) < 2 THEN << >>
    ELSE << departDirection(p) >>
         \o [k \in 1..(Len(p) - 2) |-> continueDirection(p, k + 1)]
         \o << arriveDirection(p) >>

\* totalTime = totalDistance / averageSpeed * 60 with averageSpeed = 60 km/h,
\* then Math.round: minutes.
travelMinutes1(total) == IF total = NaN THEN NaN ELSE RoundDiv(total * 60, 60 * 100)

routeResult1(p, total, rt) ==
    [path |-> p,
     totalDistance |-> roundHundredth(total),
     totalTime |-> travelMinutes1(total),
     directions |-> generateDirections(p),
     algorithm |-> IF rt = "shortest" THEN "Dijkstra (Distance)"
                   ELSE "Dijkstra (Safety-Weighted)"]

-----------------------------------------------------------------------------
(* src/unnamed/part_000: generateGraph joins the nodes into a chain; the   *)
(* adjacency list, the solver, the walk and the directions are those of    *)
(* pathfinding.ts, line for line.                                          *)

\* One step of the waypoint spacing of part_000, 200 km, in units of 0.01 km.
SpacingKm0 == 20000
MinWaypoints0 == 1
MaxWaypoints0 == 5

\* numWaypoints = Math.min(Math.max(Math.floor(distance / 200), 1), 5)
numWaypoints0(src, dst) ==
    LET distance == calculateDistance(src.lat, src.lng, dst.lat, dst.lng)
    IN  mathMin(mathMax(floorDiv(distance, SpacingKm0), MinWaypoints0), MaxWaypoints0)

\* The loop "for (let i = 1; i <= numWaypoints; i++)" runs this many times
\* (never when numWaypoints is NaN).
waypointCount0(src, dst) ==
    LET n == numWaypoints0(src, dst) IN IF n = NaN THEN 0 ELSE n

\* variation = 0.005 * (Math.random() - 0.5) degrees, in grid steps of 0.005
\* degree: (r - 50) / 100, rounded to the grid (less than half a step either
\* way, so the waypoint stays on its grid point).
variation0(r) == RoundDiv(r - 50, 100)

\* The i-th waypoint, at ratio i / (numWaypoints + 1).
waypoint0(src, dst, i, r) ==
    LET n == numWaypoints0(src, dst)
        lat == src.lat + RoundDiv((dst.lat - src.lat) * i, n + 1)
        lng == src.lng + RoundDiv((dst.lng - src.lng) * i, n + 1)
    IN  [id |-> waypointIds[i], lat |-> lat + variation0(r),
         lng |-> lng + variation0(r), name |-> waypointNames[i]]

\* nodes.push(sourceNode, destNode), then the waypoints in index order.
graphNodes0(src, dst, jitter) ==
    << [id |-> "source", lat |-> src.lat, lng |-> src.lng, name |-> src.name],
       [id |-> "destination", lat |-> dst.lat, lng |-> dst.lng, name |-> dst.name] >>
    \o [i \in 1..waypointCount0(src, dst) |-> waypoint0(src, dst, i, jitter[i])]

\* weight = dist for 'shortest'; for 'safest' safetyFactor = 0.9 + random * 0.2
\* and weight = dist * safetyFactor.  In units of 0.00001 km.
edgeWeight0(dist, rt, r) ==
    IF dist = NaN THEN NaN
    ELSE IF rt = "safest" THEN dist * (900 + 2 * r)
    ELSE dist * 1000

\* for (let i = 0; i < nodes.length - 1; i++): nodes[i] is joined to
\* nodes[i + 1], in the order of the array nodes.
graphEdges0(ns, rt, safety) ==
    [i \in 1..(Len(ns) - 1) |->
        LET dist == calculateDistance(ns[i].lat, ns[i].lng,
                                      ns[i + 1].lat, ns[i + 1].lng)
        IN  [from |-> ns[i].id, to |-> ns[i + 1].id,
             weight |-> edgeWeight0(dist, rt, safety[i]), distance |-> dist]]

generateGraph0(src, dst, rt, jitter, safety) ==
    LET ns == graphNodes0(src, dst, jitter)
    IN  [nodes |-> ns, edges |-> graphEdges0(ns, rt, safety)]

\* The result of part_000: the totals are printed without their unit.
routeResult0(p, total) ==
    [path |-> p,
     totalDistance |-> formatTenths(roundTenth(total)),
     totalTime |-> formatInteger(travelMinutes(total)),
     algorithm |-> "Dijkstra's",
     directions |-> inlineDirections(p)]

-----------------------------------------------------------------------------
(* The calls as state machines *)

Impls == {"lib", "part_000", "part_001"}

\* The implementations whose solver is the PriorityQueue loop.
queueImpls == {"lib", "part_000"}

idleFields ==
    /\ nodes = [c \in Calls |-> << >>]
    /\ edges = [c \in Calls |-> << >>]
    /\ graph = [c \in Calls |-> << >>]
    /\ distances = [c \in Calls |-> << >>]
    /\ previous = [c \in Calls |-> << >>]
    /\ pq = [c \in Calls |-> << >>]
    /\ visited = [c \in Calls |-> {}]
    /\ queue = [c \in Calls |-> << >>]
    /\ currentId = [c \in Calls |-> NULL]
    /\ path = [c \in Calls |-> << >>]
    /\ totalDistance = [c \in Calls |-> 0]
    /\ result = [c \in Calls |-> NoResult]

NoCompass == [by |-> "", index |-> -1, label |-> ""]

\* No bearing is being quantised.
idleCompass == inputBearing = 0 /\ compass = NoCompass

NoOp == [op |-> "", element |-> NULL, from |-> << >>]

\* No PriorityQueue is exercised on its own.
idleQueue == lastOp = NoOp /\ pending = << >>

\* The search box as mounted, its effect not yet run.
idleSearch ==
    /\ searchQuery = << >>
    /\ searchResults = << >>
    /\ isSearching = FALSE
    /\ showResults = FALSE
    /\ searchTimeout = NoTimeout
    /\ searches = << >>
    /\ lastResponse = NoResponse

\* The page as mounted (Index.tsx lines 9-14); NoLocation and NoResult stand
\* for null.
idlePage ==
    /\ pageSource = NoLocation
    /\ pageDestination = NoLocation
    /\ pageRouteType = "shortest"
    /\ route = NoResult
    /\ isCalculating = FALSE
    /\ selectionMode = NULL
    /\ calculation = << >>
    /\ lastClick = NoClick

\* Nothing happens outside the calls of findShortestPath.
idleOthers == idleQueue /\ idleSearch /\ idlePage

\* One call of findShortestPath with any arguments of the input set.
Init ==
    /\ \E im \in Impls, in \in RoutePairs, rt \in RouteTypes :
          /\ impl = [c \in Calls |-> IF c = 1 THEN im ELSE "lib"]
          /\ pc = [c \in Calls |-> IF c = 1 THEN "generate" ELSE "off"]
          /\ source = [c \in Calls |-> IF c = 1 THEN in[1] ELSE NoLocation]
          /\ destination = [c \in Calls |-> IF c = 1 THEN in[2] ELSE NoLocation]
          /\ routeType = [c \in Calls |-> IF c = 1 THEN rt ELSE "shortest"]
    /\ idleFields
    /\ idleCompass
    /\ idleOthers

\* Line 151: const { nodes, edges } = generateGraph(source, destination, routeType)
GenerateGraph(c) ==
    /\ impl[c] = "lib"
    /\ pc[c] = "generate"
    /\ LET src == source[c]
           dst == destination[c]
           rt == routeType[c]
       IN  \E jitter \in [1..waypointCount(src, dst) -> RandomDraws] :
           \E safety \in IF rt = "safest"
                         THEN [1..edgeCount(src, dst) -> RandomDraws]
                         ELSE {[k \in 1..edgeCount(src, dst) |-> 0]} :
              LET g == generateGraph(src, dst, rt, jitter, safety)
              IN  /\ nodes' = [nodes EXCEPT ![c] = g.nodes]
                  /\ edges' = [edges EXCEPT ![c] = g.edges]
    /\ pc' = [pc EXCEPT ![c] = "init"]
    /\ UNCHANGED << otherVars, inputBearing, compass, impl, source, destination, routeType, graph, distances,
                    previous, pq, visited, queue, currentId, path,
                    totalDistance, result >>

\* Lines 153-174 (part_000: 157-178): adjacency list, distances, previous,
\* pq.enqueue('source', 0)
InitSolver(c) ==
    /\ impl[c] \in queueImpls
    /\ pc[c] = "init"
    /\ graph' = [graph EXCEPT ![c] = adjacency(nodes[c], edges[c])]
    /\ distances' = [distances EXCEPT ![c] = initialDistances(nodes[c])]
    /\ previous' = [previous EXCEPT ![c] = initialPrevious(nodes[c])]
    /\ pq' = [pq EXCEPT ![c] = enqueue(<< >>, "source", 0)]
    /\ pc' = [pc EXCEPT ![c] = "solve"]
    /\ UNCHANGED << otherVars, inputBearing, compass, impl, source, destination, routeType, nodes, edges, visited,
                    queue, currentId, path, totalDistance, result >>

\* Mutant: one queue at module level, shared by every call.
pqShared(c) == pq[1]

\* Line 166, const pq = new PriorityQueue<string>(): the queue a call works
\* on is the one it created itself.
pqOf(c) == pq[c]

\* The state of the solver after one pass of "while (!pq.isEmpty())": the
\* loop is left when the queue is empty, when dequeue yields nothing, or when
\* it yields 'destination'.
solverPass(g, st) ==
    IF isEmpty(st.pq) THEN [st EXCEPT !.exit = TRUE]
    ELSE LET currentNodeId == dequeueElement(st.pq)
             rest == [st EXCEPT !.pq = dequeueRest(st.pq)]
         IN  IF currentNodeId = NULL \/ currentNodeId = "destination"
             THEN [rest EXCEPT !.exit = TRUE]
             ELSE LET neighbors == IF currentNodeId \in DOMAIN g
                                   THEN g[currentNodeId] ELSE << >>
                      after == relax([distances |-> rest.distances,
                                      previous |-> rest.previous,
                                      pq |-> rest.pq],
                                     currentNodeId, neighbors, 1)
                  IN  [distances |-> after.distances, previous |-> after.previous,
                       pq |-> after.pq, exit |-> FALSE]

\* Lines 176-193 (part_000: 180-197), one pass; on exit lines 196-197 start
\* the reconstruction.
SolverStep(c) ==
    /\ impl[c] \in queueImpls
    /\ pc[c] = "solve"
    /\ LET st == solverPass(graph[c], [distances |-> distances[c],
                                       previous |-> previous[c],
                                       pq |-> pqOf(c), exit |-> FALSE])
       IN  /\ distances' = [distances EXCEPT ![c] = st.distances]
           /\ previous' = [previous EXCEPT ![c] = st.previous]
           /\ pq' = [pq EXCEPT ![c] = st.pq]
           /\ pc' = [pc EXCEPT ![c] = IF st.exit THEN "reconstruct" ELSE "solve"]
           /\ currentId' = [currentId EXCEPT ![c] =
                               IF st.exit THEN "destination" ELSE @]
    /\ UNCHANGED << otherVars, inputBearing, compass, impl, source, destination, routeType, nodes, edges, graph,
                    visited, queue, path, totalDistance, result >>

\* Lines 199-203 (part_000: 203-207), one pass of "while (currentId !== null)".
ReconstructStep(c) ==
    /\ impl[c] \in queueImpls
    /\ pc[c] = "reconstruct"
    /\ currentId[c] # NULL
    /\ Len(path[c]) < MaxPathLen
    /\ path' = [path EXCEPT ![c] = unshift(@, findNode(nodes[c], currentId[c], 1))]
    /\ currentId' = [currentId EXCEPT ![c] = previousOf(previous[c], currentId[c])]
    /\ UNCHANGED << otherVars, inputBearing, compass, impl, pc, source, destination, routeType, nodes, edges,
                    graph, distances, previous, pq, visited, queue,
                    totalDistance, result >>

\* Lines 205-245: totals, directions and the returned RouteResult.
Finish(c) ==
    /\ impl[c] = "lib"
    /\ pc[c] = "reconstruct"
    /\ currentId[c] = NULL
    /\ totalDistance' = [totalDistance EXCEPT ![c] = pathDistance(path[c], 1)]
    /\ result' = [result EXCEPT ![c] = routeResult(path[c], pathDistance(path[c], 1))]
    /\ pc' = [pc EXCEPT ![c] = "done"]
    /\ UNCHANGED << otherVars, inputBearing, compass, impl, source, destination, routeType, nodes, edges, graph,
                    distances, previous, pq, visited, queue, currentId, path >>

\* part_000 line 155: const { nodes, edges } = generateGraph(...)
GenerateGraph0(c) ==
    /\ impl[c] = "part_000"
    /\ pc[c] = "generate"
    /\ LET src == source[c]
           dst == destination[c]
           rt == routeType[c]
           count == waypointCount0(src, dst)
       IN  \E jitter \in [1..count -> RandomDraws] :
           \E safety \in IF rt = "safest"
                         THEN [1..(count + 1) -> RandomDraws]
                         ELSE {[k \in 1..(count + 1) |-> 0]} :
              LET g == generateGraph0(src, dst, rt, jitter, safety)
              IN  /\ nodes' = [nodes EXCEPT ![c] = g.nodes]
                  /\ edges' = [edges EXCEPT ![c] = g.edges]
    /\ pc' = [pc EXCEPT ![c] = "init"]
    /\ UNCHANGED << otherVars, inputBearing, compass, impl, source, destination, routeType, graph, distances,
                    previous, pq, visited, queue, currentId, path,
                    totalDistance, result >>

\* part_000 lines 211-256: totals, directions and the returned RouteResult.
Finish0(c) ==
    /\ impl[c] = "part_000"
    /\ pc[c] = "reconstruct"
    /\ currentId[c] = NULL
    /\ totalDistance' = [totalDistance EXCEPT ![c] = pathDistance(path[c], 1)]
    /\ result' = [result EXCEPT ![c] = routeResult0(path[c], pathDistance(path[c], 1))]
    /\ pc' = [pc EXCEPT ![c] = "done"]
    /\ UNCHANGED << otherVars, inputBearing, compass, impl, source, destination, routeType, nodes, edges, graph,
                    distances, previous, pq, visited, queue, currentId, path >>

\* part_001 lines 96-112: waypoints and the chain of edges.
GenerateWaypoints1(c) ==
    /\ impl[c] = "part_001"
    /\ pc[c] = "generate"
    /\ LET ws == generateRouteWaypoints(source[c], destination[c])
       IN  \E safety \in IF routeType[c] = "safest"
                         THEN [1..(Len(ws) - 1) -> RandomDraws]
                         ELSE {[k \in 1..(Len(ws) - 1) |-> 0]} :
              /\ nodes' = [nodes EXCEPT ![c] = ws]
              /\ edges' = [edges EXCEPT ![c] = chainEdges(ws, routeType[c], safety)]
    /\ pc' = [pc EXCEPT ![c] = "init"]
    /\ UNCHANGED << otherVars, inputBearing, compass, impl, source, destination, routeType, graph, distances,
                    previous, pq, visited, queue, currentId, path,
                    totalDistance, result >>

\* part_001 lines 115-124: distances, previous, visited, queue.
InitSolver1(c) ==
    /\ impl[c] = "part_001"
    /\ pc[c] = "init"
    /\ distances' = [distances EXCEPT ![c] = initialDistances(nodes[c])]
    /\ previous' = [previous EXCEPT ![c] = initialPrevious(nodes[c])]
    /\ visited' = [visited EXCEPT ![c] = {}]
    /\ queue' = [queue EXCEPT ![c] = nodes[c]]
    /\ pc' = [pc EXCEPT ![c] = "solve"]
    /\ UNCHANGED << otherVars, inputBearing, compass, impl, source, destination, routeType, nodes, edges, graph,
                    pq, currentId, path, totalDistance, result >>

\* part_001 lines 126-150, one pass; on exit lines 153-154.
SolverStep1(c) ==
    /\ impl[c] = "part_001"
    /\ pc[c] = "solve"
    /\ LET st == solverPass1(edges[c], routeType[c],
                             [distances |-> distances[c], previous |-> previous[c],
                              visited |-> visited[c], queue |-> queue[c],
                              exit |-> FALSE])
       IN  /\ distances' = [distances EXCEPT ![c] = st.distances]
           /\ previous' = [previous EXCEPT ![c] = st.previous]
           /\ visited' = [visited EXCEPT ![c] = st.visited]
           /\ queue' = [queue EXCEPT ![c] = st.queue]
           /\ pc' = [pc EXCEPT ![c] = IF st.exit THEN "reconstruct" ELSE "solve"]
           /\ currentId' = [currentId EXCEPT ![c] =
                               IF st.exit THEN "destination" ELSE @]
    /\ UNCHANGED << otherVars, inputBearing, compass, impl, source, destination, routeType, nodes, edges, graph,
                    pq, path, totalDistance, result >>

\* part_001 lines 156-160, one pass of "while (currentId)".
ReconstructStep1(c) ==
    /\ impl[c] = "part_001"
    /\ pc[c] = "reconstruct"
    /\ currentId[c] # NULL
    /\ Len(path[c]) < MaxPathLen
    /\ path' = [path EXCEPT ![c] = unshift(@, findNode(nodes[c], currentId[c], 1))]
    /\ currentId' = [currentId EXCEPT ![c] = previousOf(previous[c], currentId[c])]
    /\ UNCHANGED << otherVars, inputBearing, compass, impl, pc, source, destination, routeType, nodes, edges,
                    graph, distances, previous, pq, visited, queue,
                    totalDistance, result >>

\* part_001 lines 163-181: totals, directions and the returned RouteResult.
Finish1(c) ==
    /\ impl[c] = "part_001"
    /\ pc[c] = "reconstruct"
    /\ currentId[c] = NULL
    /\ totalDistance' = [totalDistance EXCEPT ![c] = pathDistance(path[c], 1)]
    /\ result' = [result EXCEPT ![c] =
                     routeResult1(path[c], pathDistance(path[c], 1), routeType[c])]
    /\ pc' = [pc EXCEPT ![c] = "done"]
    /\ UNCHANGED << otherVars, inputBearing, compass, impl, source, destination, routeType, nodes, edges, graph,
                    distances, previous, pq, visited, queue, currentId, path >>

Next ==
    \E c \in Calls :
        \/ GenerateGraph(c)
        \/ InitSolver(c)
        \/ SolverStep(c)
        \/ ReconstructStep(c)
        \/ Finish(c)
        \/ GenerateGraph0(c)
        \/ Finish0(c)
        \/ GenerateWaypoints1(c)
        \/ InitSolver1(c)
        \/ SolverStep1(c)
        \/ ReconstructStep1(c)
        \/ Finish1(c)

Spec == Init /\ [][Next]_vars

\* Two calls in progress together, each with its own arguments ('shortest').
RoutePairs2 == { << Home, Home >>, << Home, Step >>, << Home, Near >> }

Init2 ==
    /\ \E im1 \in Impls, im2 \in Impls, in1 \in RoutePairs2, in2 \in RoutePairs2 :
          /\ impl = [c \in Calls |-> IF c = 1 THEN im1 ELSE im2]
          /\ pc = [c \in Calls |-> "generate"]
          /\ source = [c \in Calls |-> IF c = 1 THEN in1[1] ELSE in2[1]]
          /\ destination = [c \in Calls |-> IF c = 1 THEN in1[2] ELSE in2[2]]
          /\ routeType = [c \in Calls |-> "shortest"]
    /\ idleFields
    /\ idleCompass
    /\ idleOthers

Spec2 == Init2 /\ [][Next]_vars

-----------------------------------------------------------------------------
(* The compass quantisation as a function of the bearing: the last two     *)
(* lines of calculateBearing (pathfinding.ts) and bearingToDirection       *)
(* (part_001), applied to every whole bearing of [0, 360).                 *)

Bearings == 0..(FullTurn - 1)

InitCompass ==
    /\ impl = [c \in Calls |-> "lib"]
    /\ pc = [c \in Calls |-> "off"]
    /\ source = [c \in Calls |-> NoLocation]
    /\ destination = [c \in Calls |-> NoLocation]
    /\ routeType = [c \in Calls |-> "shortest"]
    /\ idleFields
    /\ inputBearing \in Bearings
    /\ compass = NoCompass
    /\ idleOthers

\* pathfinding.ts lines 85-87:
\* index = Math.round(bearing / 45) % 8; return directions[index]
CalculateBearingLabel ==
    /\ compass = NoCompass
    /\ compass' = [by |-> "calculateBearing", index |-> bearingIndex(inputBearing),
                   label |-> compassLabels[bearingIndex(inputBearing) + 1]]
    /\ UNCHANGED << callVars, inputBearing, otherVars >>

\* part_001 lines 250-254: bearingToDirection(bearing)
BearingToDirection ==
    /\ compass = NoCompass
    /\ compass' = [by |-> "bearingToDirection", index |-> bearingIndex(inputBearing),
                   label |-> bearingToDirection(inputBearing)]
    /\ UNCHANGED << callVars, inputBearing, otherVars >>

NextCompass == CalculateBearingLabel \/ BearingToDirection

SpecCompass == InitCompass /\ [][NextCompass]_vars

-----------------------------------------------------------------------------
(* The search box of RouteControls (src/unnamed/part_002 lines 38-85): the  *)
(* query typed, the 500 ms timer of the search effect, the searchLocations  *)
(* calls awaited, and the click on a result.                                *)

\* At most this many searchLocations calls are awaited at a time.
MaxSearches == 2

\* The texts typed into the box.
Queries == { << >>, << "l", "o", " " >>, << "L", "o", "n" >> }

InitSearch ==
    /\ \E i \in {"lib", "part_001"} : impl = [c \in Calls |-> i]
    /\ pc = [c \in Calls |-> "off"]
    /\ source = [c \in Calls |-> NoLocation]
    /\ destination = [c \in Calls |-> NoLocation]
    /\ routeType = [c \in Calls |-> "shortest"]
    /\ idleFields
    /\ idleCompass
    /\ idleQueue
    /\ idlePage
    /\ searchQuery = << >>
    /\ searchResults = << >>
    /\ isSearching = FALSE
    /\ showResults = FALSE
    /\ searchTimeout = [armed |-> TRUE, query |-> << >>]
    /\ searches = << >>
    /\ lastResponse = NoResponse

\* onChange of the input: setSearchQuery(e.target.value); the effect's cleanup
\* clears the timer and the effect sets a new one (lines 45-69).
ChangeQuery ==
    /\ \E query \in Queries \ {searchQuery} :
          /\ searchQuery' = query
          /\ searchTimeout' = [armed |-> TRUE, query |-> query]
    /\ UNCHANGED << callVars, inputBearing, compass, lastOp, pending, pageVars, searchResults,
                    isSearching, showResults, searches, lastResponse >>

\* The timer callback up to its await (lines 46-50, 62-65).
TimeoutFires ==
    /\ searchTimeout.armed
    /\ IF Len(trim(searchTimeout.query)) > 2
       THEN /\ Len(searches) < MaxSearches
            /\ isSearching' = TRUE
            /\ searches' = Append(searches, searchTimeout.query)
            /\ UNCHANGED << searchResults, showResults >>
       ELSE /\ searchResults' = << >>
            /\ showResults' = FALSE
            /\ UNCHANGED << isSearching, searches >>
    /\ searchTimeout' = NoTimeout
    /\ UNCHANGED << callVars, inputBearing, compass, lastOp, pending, pageVars, searchQuery,
                    lastResponse >>

\* An awaited searchLocations settles and the callback resumes (lines 50-61).
SearchSettles ==
    /\ \E k \in 1..Len(searches), response \in Responses :
          LET settled == searchLocations(impl[1], searches[k], response)
          IN  /\ IF settled.state = "fulfilled"
                 THEN /\ searchResults' = settled.value
                      /\ showResults' = TRUE
                 ELSE UNCHANGED << searchResults, showResults >>
              /\ isSearching' = FALSE
              /\ searches' = without(searches, k)
              /\ lastResponse' = [query |-> searches[k], typed |-> searchQuery,
                                  response |-> response.kind,
                                  state |-> settled.state, value |-> settled.value]
    /\ UNCHANGED << callVars, inputBearing, compass, lastOp, pending, pageVars, searchQuery,
                    searchTimeout >>

\* handleSearchResultClick (lines 71-85); the buttons exist while the results
\* are shown (line 120).
HandleSearchResultClick ==
    /\ showResults
    /\ searchResults # << >>
    /\ \E k \in 1..Len(searchResults), type \in {"source", "destination"} :
          /\ IF type = "source"
             THEN pageSource' = searchResults[k] /\ UNCHANGED pageDestination
             ELSE pageDestination' = searchResults[k] /\ UNCHANGED pageSource
    /\ showResults' = FALSE
    /\ searchQuery' = << >>
    /\ searchTimeout' = IF searchQuery = << >> THEN searchTimeout
                        ELSE [armed |-> TRUE, query |-> << >>]
    /\ selectionMode' = NULL
    /\ UNCHANGED << callVars, inputBearing, compass, lastOp, pending, searchResults, isSearching,
                    searches, lastResponse, pageRouteType, route, isCalculating,
                    calculation, lastClick >>

NextSearch ==
    \/ ChangeQuery
    \/ TimeoutFires
    \/ SearchSettles
    \/ HandleSearchResultClick

SpecSearch == InitSearch /\ [][NextSearch]_vars

-----------------------------------------------------------------------------
(* The page Index (src/src/pages/Index.tsx) with the buttons of             *)
(* RouteControls and the click handler of RouteMap.  findShortestPath is    *)
(* the one of pathfinding.ts, run as call 1; it is synchronous, so no event  *)
(* is handled while it runs.                                                *)

\* At most this many handleCalculateRoute calls are in progress at a time.
MaxCalculations == 2

\* The points of the map that are clicked.
MapPoints == { [lat |-> Home.lat, lng |-> Home.lng],
               [lat |-> Step.lat, lng |-> Step.lng] }

\* No findShortestPath is running: events are handled.
threadFree == pc[1] = "off"

\* Mutant: the button is enabled while a calculation is in progress.
canCalculateRouteWhileBusy == pageSource # NoLocation /\ pageDestination # NoLocation

\* part_002 line 87
canCalculateRoute ==
    pageSource # NoLocation /\ pageDestination # NoLocation /\ ~isCalculating

\* Mutant: the selection mode is left as it is.
handleLocationSelectKeepMode(location, type) ==
    [source |-> IF type = "source" THEN location ELSE pageSource,
     destination |-> IF type = "source" THEN pageDestination ELSE location,
     selectionMode |-> selectionMode]

\* handleLocationSelect (Index.tsx lines 17-32): the states it sets.
handleLocationSelect(location, type) ==
    [source |-> IF type = "source" THEN location ELSE pageSource,
     destination |-> IF type = "source" THEN pageDestination ELSE location,
     selectionMode |-> NULL]

InitPage ==
    /\ impl = [c \in Calls |-> "lib"]
    /\ pc = [c \in Calls |-> "off"]
    /\ source = [c \in Calls |-> NoLocation]
    /\ destination = [c \in Calls |-> NoLocation]
    /\ routeType = [c \in Calls |-> "shortest"]
    /\ idleFields
    /\ idleCompass
    /\ idleQueue
    /\ idleSearch
    /\ idlePage

\* The buttons Select Source and Select Destination (part_002 lines 171-195)
SelectMode ==
    /\ threadFree
    /\ \E mode \in {"source", "destination"} :
          selectionMode' = IF selectionMode = mode THEN NULL ELSE mode
    /\ lastClick' = NoClick
    /\ UNCHANGED << callVars, inputBearing, compass, lastOp, pending, searchVars, pageSource,
                    pageDestination, pageRouteType, route, isCalculating,
                    calculation >>

\* A click on the map (RouteMap.tsx lines 49-59, Index.tsx lines 17-32); of
\* the name of the Location the handler builds only the prefix is kept.
MapClick ==
    /\ threadFree
    /\ \E latlng \in MapPoints :
          /\ lastClick' = [clicked |-> TRUE, latlng |-> latlng,
                           mode |-> selectionMode, source |-> pageSource,
                           destination |-> pageDestination]
          /\ IF selectionMode # NULL
             THEN LET location ==
                          [lat |-> latlng.lat, lng |-> latlng.lng,
                           name |-> IF selectionMode = "source" THEN "Source"
                                    ELSE "Destination"]
                      set == handleLocationSelect(location, selectionMode)
                  IN  /\ pageSource' = set.source
                      /\ pageDestination' = set.destination
                      /\ selectionMode' = set.selectionMode
             ELSE UNCHANGED << pageSource, pageDestination, selectionMode >>
    /\ UNCHANGED << callVars, inputBearing, compass, lastOp, pending, searchVars, pageRouteType,
                    route, isCalculating, calculation >>

\* The buttons Shortest and Safest (part_002 lines 220-235)
ChangeRouteType ==
    /\ threadFree
    /\ \E rt \in RouteTypes \ {pageRouteType} : pageRouteType' = rt
    /\ lastClick' = NoClick
    /\ UNCHANGED << callVars, inputBearing, compass, lastOp, pending, searchVars, pageSource,
                    pageDestination, route, isCalculating, selectionMode,
                    calculation >>

\* A click on the calculate button (part_002 lines 238-243): handleCalculateRoute
\* up to its await (Index.tsx lines 34-47).  The closure keeps the source,
\* destination and routeType of the render it was made in.
HandleCalculateRoute ==
    /\ threadFree
    /\ canCalculateRoute
    /\ Len(calculation) < MaxCalculations
    /\ IF pageSource = NoLocation \/ pageDestination = NoLocation
       THEN UNCHANGED << isCalculating, calculation >>
       ELSE /\ isCalculating' = TRUE
            /\ calculation' = Append(calculation,
                   [stage |-> "delay", source |-> pageSource,
                    destination |-> pageDestination, routeType |-> pageRouteType])
    /\ lastClick' = NoClick
    /\ UNCHANGED << callVars, inputBearing, compass, lastOp, pending, searchVars, pageSource,
                    pageDestination, pageRouteType, route, selectionMode >>

\* The 1 s delay is over (Index.tsx lines 47-49): findShortestPath is called.
DelayEnds ==
    /\ threadFree
    /\ \E k \in 1..Len(calculation) :
          /\ calculation[k].stage = "delay"
          /\ calculation' = [calculation EXCEPT ![k].stage = "computing"]
          /\ source' = [source EXCEPT ![1] = calculation[k].source]
          /\ destination' = [destination EXCEPT ![1] = calculation[k].destination]
          /\ routeType' = [routeType EXCEPT ![1] = calculation[k].routeType]
    /\ pc' = [pc EXCEPT ![1] = "generate"]
    /\ lastClick' = NoClick
    /\ UNCHANGED << impl, nodes, edges, graph, distances, previous, pq, visited,
                    queue, currentId, path, totalDistance, result, inputBearing, compass,
                    lastOp, pending, searchVars, pageSource, pageDestination,
                    pageRouteType, route, isCalculating, selectionMode >>

\* findShortestPath has returned (Index.tsx lines 49-65): setRoute(result) and,
\* in the finally block, setIsCalculating(false).
CalculationReturns ==
    /\ pc[1] = "done"
    /\ \E k \in 1..Len(calculation) :
          /\ calculation[k].stage = "computing"
          /\ calculation' = without(calculation, k)
    /\ route' = result[1]
    /\ isCalculating' = FALSE
    /\ pc' = [pc EXCEPT ![1] = "off"]
    /\ source' = [source EXCEPT ![1] = NoLocation]
    /\ destination' = [destination EXCEPT ![1] = NoLocation]
    /\ routeType' = [routeType EXCEPT ![1] = "shortest"]
    /\ nodes' = [nodes EXCEPT ![1] = << >>]
    /\ edges' = [edges EXCEPT ![1] = << >>]
    /\ graph' = [graph EXCEPT ![1] = << >>]
    /\ distances' = [distances EXCEPT ![1] = << >>]
    /\ previous' = [previous EXCEPT ![1] = << >>]
    /\ pq' = [pq EXCEPT ![1] = << >>]
    /\ currentId' = [currentId EXCEPT ![1] = NULL]
    /\ path' = [path EXCEPT ![1] = << >>]
    /\ totalDistance' = [totalDistance EXCEPT ![1] = 0]
    /\ result' = [result EXCEPT ![1] = NoResult]
    /\ lastClick' = NoClick
    /\ UNCHANGED << impl, visited, queue, inputBearing, compass, lastOp, pending, searchVars,
                    pageSource, pageDestination, pageRouteType, selectionMode >>

NextPage ==
    \/ SelectMode
    \/ MapClick
    \/ ChangeRouteType
    \/ HandleCalculateRoute
    \/ DelayEnds
    \/ GenerateGraph(1)
    \/ InitSolver(1)
    \/ SolverStep(1)
    \/ ReconstructStep(1)
    \/ Finish(1)
    \/ CalculationReturns

SpecPage == InitPage /\ [][NextPage]_vars

-----------------------------------------------------------------------------
(* The PriorityQueue on its own: any sequence of enqueue and dequeue on one *)
(* queue (its items are pq[1]).  pending lists the enqueues that no dequeue *)
(* has returned yet, in the order they were made.                           *)

\* The queue holds at most this many items.
MaxQueueLen == 3

QueueElements == {"a", "b"}

\* Priorities are finite numbers (the solver enqueues distances that passed
\* a < comparison).
QueuePriorities == {0, 1, 2}

\* The caller-side bookkeeping of a dequeue: the first of the pending
\* enqueues of least priority is the one that leaves.
leastPending(entries) ==
    CHOOSE k \in 1..Len(entries) :
        /\ \A j \in 1..Len(entries) : entries[k].priority <= entries[j].priority
        /\ \A j \in 1..(k - 1) : entries[j].priority # entries[k].priority

InitQueue ==
    /\ impl = [c \in Calls |-> "lib"]
    /\ pc = [c \in Calls |-> "off"]
    /\ source = [c \in Calls |-> NoLocation]
    /\ destination = [c \in Calls |-> NoLocation]
    /\ routeType = [c \in Calls |-> "shortest"]
    /\ idleFields
    /\ idleCompass
    /\ idleQueue
    /\ idleSearch
    /\ idlePage

\* pq.enqueue(element, priority)
Enqueue ==
    /\ Len(pq[1]) < MaxQueueLen
    /\ \E element \in QueueElements, priority \in QueuePriorities :
          /\ pq' = [pq EXCEPT ![1] = enqueue(@, element, priority)]
          /\ pending' = Append(pending, [element |-> element, priority |-> priority])
          /\ lastOp' = [op |-> "enqueue", element |-> element, from |-> pending]
    /\ UNCHANGED << impl, pc, source, destination, routeType, nodes, edges, graph,
                    distances, previous, visited, queue, currentId, path,
                    totalDistance, result, inputBearing, compass, searchVars, pageVars >>

\* pq.dequeue()
Dequeue ==
    /\ pq' = [pq EXCEPT ![1] = dequeueRest(@)]
    /\ lastOp' = [op |-> "dequeue", element |-> dequeueElement(pq[1]), from |-> pending]
    /\ pending' = IF pending = << >> THEN << >>
                  ELSE without(pending, leastPending(pending))
    /\ UNCHANGED << impl, pc, source, destination, routeType, nodes, edges, graph,
                    distances, previous, visited, queue, currentId, path,
                    totalDistance, result, inputBearing, compass, searchVars, pageVars >>

NextQueue == Enqueue \/ Dequeue

SpecQueue == InitQueue /\ [][NextQueue]_vars

-----------------------------------------------------------------------------
(* Notions the properties are stated in *)

validInput(c) == ValidCoordinate(source[c]) /\ ValidCoordinate(destination[c])

returned(c) == pc[c] = "done"

\* The solver left the destination with a predecessor: a route was found.
reached(c) == returned(c) /\ previous[c]["destination"] # NULL

ids(p) == [k \in 1..Len(p) |-> p[k].id]

noRepeat(seq) == \A i, j \in 1..Len(seq) : seq[i] = seq[j] => i = j

\* The edge of es that joins the node ids a and b, in either direction.
edgeJoining(es, a, b) ==
    CHOOSE k \in 1..Len(es) :
        \/ es[k].from = a /\ es[k].to = b
        \/ es[k].from = b /\ es[k].to = a

\* The weight the solver of call c uses for edge e, in 0.00001 km.
solverWeight(c, e) ==
    IF impl[c] = "part_001" THEN edgeWeight1(e, routeType[c]) ELSE e.weight

\* Sum, over the consecutive nodes of p, of the physical length (field
\* distance) of the graph edge that joins them.
RECURSIVE edgeLengthAlong(_, _, _)
edgeLengthAlong(es, p, i) ==
    IF i > Len(p) - 1 THEN 0
    ELSE es[edgeJoining(es, p[i].id, p[i + 1].id)].distance
         + edgeLengthAlong(es, p, i + 1)

\* The same sum over the weights the solver used.
RECURSIVE weightAlong(_, _, _, _)
weightAlong(c, es, p, i) ==
    IF i > Len(p) - 1 THEN 0
    ELSE solverWeight(c, es[edgeJoining(es, p[i].id, p[i + 1].id)])
         + weightAlong(c, es, p, i + 1)

\* Shortest weighted distances from 'source' over the undirected edges es,
\* by Len(ns) rounds of relaxation of every edge (Bellman-Ford).
RECURSIVE bellmanFord(_, _, _)
bellmanFord(d, es, rounds) ==
    IF rounds = 0 THEN d
    ELSE LET via(v) == {d[v]} \cup
                       {Plus(d[es[k].from], es[k].weight) :
                            k \in {j \in 1..Len(es) : es[j].to = v}} \cup
                       {Plus(d[es[k].to], es[k].weight) :
                            k \in {j \in 1..Len(es) : es[j].from = v}}
             least(S) == CHOOSE x \in S : \A y \in S : x <= y
         IN  bellmanFord([v \in DOMAIN d |-> least(via(v))], es, rounds - 1)

minimumWeight(ns, es) ==
    bellmanFord(initialDistances(ns), es, Len(ns))["destination"]

finiteWeights(es) == \A k \in 1..Len(es) : es[k].weight # NaN

isCompassLabel(label) == \E k \in 1..Len(compassLabels) : compassLabels[k] = label

\* The nodes of call c in the order of the literal chain: source, the
\* waypoints in index order, destination.
chainOrder(c) ==
    IF impl[c] = "part_001" THEN nodes[c]
    ELSE << nodes[c][1] >> \o SubSeq(nodes[c], 3, Len(nodes[c])) \o << nodes[c][2] >>

\* The base (unweighted) distance along that chain, in units of 0.00001 km
\* (the unit of the weights).
chainWeight(c) ==
    LET base == segmentsDistance(chainOrder(c), 1, Len(chainOrder(c)) - 1)
    IN  IF base = NaN THEN NaN ELSE base * 1000

-----------------------------------------------------------------------------
(* Properties *)

\* C1: for valid coordinates and either route type findShortestPath of
\* pathfinding.ts terminates: the walk over the previous links that starts at
\* 'destination' reaches null after finitely many steps.  The walk is
\* deterministic, so it reaches null only if it never comes back to a node:
\* the path it builds holds no node twice.
C1_WalkReachesNull ==
    \A c \in Calls :
        (impl[c] = "lib" /\ validInput(c) /\ pc[c] = "reconstruct")
            => noRepeat(ids(path[c]))

\* C2: in every successful computation (a result is returned and the
\* destination was reached) the first element of the returned path is the
\* source node and the last element is the destination node.
C2_PathEndpoints ==
    \A c \in Calls :
        reached(c) =>
            LET p == result[c].path
            IN  /\ Len(p) >= 1
                /\ p[1].id = "source"
                /\ SameCoordinate(p[1], source[c])
                /\ p[Len(p)].id = "destination"
                /\ SameCoordinate(p[Len(p)], destination[c])

C2_Witness ==
    \E c \in Calls :
        /\ reached(c) /\ impl[c] = "lib"
        /\ ~SameCoordinate(source[c], destination[c])
        /\ Len(result[c].path) = 2

\* C3: findShortestPath of pathfinding.ts is optimal over its own graph: when
\* the solver loop is left, distances['destination'] is the minimum total
\* weight over all paths from source to destination of the synthesized
\* complete graph, and the edge weights along a returned path add up to it.
C3_Optimal ==
    \A c \in Calls :
        (impl[c] = "lib" /\ pc[c] \in {"reconstruct", "done"} /\ finiteWeights(edges[c]))
            => /\ distances[c]["destination"] = minimumWeight(nodes[c], edges[c])
               /\ returned(c) =>
                     weightAlong(c, edges[c], path[c], 1)
                         = minimumWeight(nodes[c], edges[c])

\* The solver has left its loop with a route through a waypoint that is
\* strictly cheaper than the direct edge.
C3_Witness ==
    \E c \in Calls :
        /\ impl[c] = "lib" /\ pc[c] = "reconstruct" /\ routeType[c] = "safest"
        /\ previous[c]["destination"] \notin {"source", NULL}
        /\ distances[c]["destination"]
              < edges[c][edgeJoining(edges[c], "source", "destination")].weight

C5_DistanceAdditive ==
    \A c \in Calls :
        returned(c) =>
            totalDistance[c] = edgeLengthAlong(edges[c], path[c], 1)

C5_Witness ==
    \E c \in Calls :
        /\ returned(c) /\ validInput(c) /\ routeType[c] = "safest"
        /\ totalDistance[c] > 0
        /\ weightAlong(c, edges[c], path[c], 1) # 1000 * totalDistance[c]

\* C6: with source and destination the same coordinate and route type
\* 'shortest' the result has a path of length 1, total distance 0, total
\* time 0 and no direction entry with a compass label (every segment of such
\* a path has length zero, so any label would come from a zero-length
\* segment).
C6_DegenerateInput ==
    \A c \in Calls :
        (returned(c) /\ validInput(c) /\ routeType[c] = "shortest"
            /\ SameCoordinate(source[c], destination[c]))
        => /\ Len(result[c].path) = 1
           /\ totalDistance[c] = 0
           /\ result[c].totalTime = (CASE impl[c] = "part_001" -> 0
                                      [] impl[c] = "part_000" -> "0"
                                      [] OTHER -> "0 min")
           /\ \A k \in 1..Len(result[c].directions) :
                 ~isCompassLabel(result[c].directions[k].direction)

\* C7: a solver that finishes with the destination unreached (distance
\* Infinity, no predecessor) surfaces a failure: no result is returned whose
\* path is the single node [destination] with total distance 0 and an empty
\* direction list.
C7_UnreachableSurfaced ==
    \A c \in Calls :
        ~ /\ returned(c)
          /\ distances[c]["destination"] = Infinity
          /\ previous[c]["destination"] = NULL
          /\ ids(result[c].path) = << "destination" >>
          /\ totalDistance[c] = 0
          /\ result[c].directions = << >>

\* C8: a call with a latitude outside [-90, 90] or a longitude outside
\* [-180, 180] fails fast: no node and no edge is synthesized and no route is
\* returned.
C8_FailFast ==
    \A c \in Calls :
        (pc[c] # "off" /\ ~validInput(c)) =>
            /\ nodes[c] = << >>
            /\ edges[c] = << >>
            /\ ~returned(c)

\* C9: two runs of findShortestPath with the same source, destination and
\* route type 'shortest' yield the same total distance, whatever the random
\* variation of the waypoints is in each run.
C9_SameTotal ==
    \A c, d \in Calls :
        (/\ returned(c) /\ returned(d) /\ impl[c] = impl[d]
         /\ routeType[c] = "shortest" /\ routeType[d] = "shortest"
         /\ source[c] = source[d] /\ destination[c] = destination[d])
        => /\ totalDistance[c] = totalDistance[d]
           /\ result[c].totalDistance = result[d].totalDistance

\* Both runs returned, with different waypoints and a route of positive length.
C9_Witness ==
    /\ returned(1) /\ returned(2)
    /\ impl[1] = "lib" /\ impl[2] = "lib"
    /\ source[1] = source[2] /\ destination[1] = destination[2]
    /\ nodes[1] # nodes[2]
    /\ totalDistance[1] > 0

\* C10: under 'safest', for valid source and destination, the returned path
\* has between 2 and (number of synthesized waypoints + 2) nodes, whatever
\* safety factors are drawn.
C10_PathLength ==
    \A c \in Calls :
        (returned(c) /\ validInput(c) /\ routeType[c] = "safest") =>
            /\ 2 <= Len(result[c].path)
            /\ Len(result[c].path) <= (Len(nodes[c]) - 2) + 2

C10_Witness ==
    \E c \in Calls :
        /\ returned(c) /\ validInput(c) /\ routeType[c] = "safest"
        /\ impl[c] = "lib" /\ Len(nodes[c]) >= 3
        /\ ~SameCoordinate(source[c], destination[c])

\* C11: with route type 'shortest', when the solver loop is left,
\* distances['destination'] does not exceed the sum of the base distances
\* along the literal chain source, waypoint_1, ..., waypoint_n, destination
\* of the synthesized graph.
C11_TriangleConsistent ==
    \A c \in Calls :
        (/\ routeType[c] = "shortest" /\ pc[c] \in {"reconstruct", "done"}
         /\ Len(nodes[c]) >= 2 /\ chainWeight(c) # NaN)
        => ~LessThan(chainWeight(c), distances[c]["destination"])

\* The solver of pathfinding.ts has left its loop on a graph whose waypoint
\* the variation moved off the straight line: the chain is strictly longer
\* than the distance found.
C11_Witness ==
    \E c \in Calls :
        /\ impl[c] = "lib" /\ routeType[c] = "shortest" /\ pc[c] = "reconstruct"
        /\ Len(nodes[c]) >= 3
        /\ distances[c]["destination"] > 0
        /\ distances[c]["destination"] < chainWeight(c)

\* C12: whenever the returned path has at least 2 nodes (a path of exactly
\* 2 nodes, source then destination, included), the last direction entry is
\* the arrive maneuver: its instruction is "Arrive at " followed by the
\* display name of the destination, and its distance is the (display
\* rounded) distance of the final segment of the path.
C12_ArriveLast ==
    \A c \in Calls :
        (returned(c) /\ Len(result[c].path) >= 2) =>
            LET p == result[c].path
                n == Len(p)
                dirs == result[c].directions
                final == calculateDistance(p[n - 1].lat, p[n - 1].lng,
                                           p[n].lat, p[n].lng)
            IN  /\ Len(dirs) >= 1
                /\ dirs[Len(dirs)].instruction = "Arrive at " \o p[n].name
                /\ dirs[Len(dirs)].distance =
                      (IF impl[c] = "part_001" THEN roundHundredth(final)
                                               ELSE roundTenth(final))

\* C13: compass quantisation.  For every bearing in [0, 360) the label index
\* round(bearing / 45) mod 8 lies in 0..7; the bearings 0, 45, 90, ..., 315
\* map to North, Northeast, East, Southeast, South, Southwest, West,
\* Northwest in this order; a bearing at the wrap boundary (337.5 and above,
\* 359 for one) maps to North.
C13_CompassQuantization ==
    compass # NoCompass =>
        /\ compass.index \in 0..7
        /\ inputBearing = 0 => compass.label = "North"
        /\ inputBearing = 45 => compass.label = "Northeast"
        /\ inputBearing = 90 => compass.label = "East"
        /\ inputBearing = 135 => compass.label = "Southeast"
        /\ inputBearing = 180 => compass.label = "South"
        /\ inputBearing = 225 => compass.label = "Southwest"
        /\ inputBearing = 270 => compass.label = "West"
        /\ inputBearing = 315 => compass.label = "Northwest"
        /\ inputBearing >= 338 => compass.label = "North"

\* The solver loop of pathfinding.ts run to its end (at most fuel passes).
RECURSIVE solverRun(_, _, _)
solverRun(g, st, fuel) ==
    IF st.exit \/ fuel = 0 THEN st
    ELSE solverRun(g, solverPass(g, st), fuel - 1)

\* The solver loop of part_001 run to its end.
RECURSIVE solverRun1(_, _, _, _)
solverRun1(es, rt, st, fuel) ==
    IF st.exit \/ fuel = 0 THEN st
    ELSE solverRun1(es, rt, solverPass1(es, rt, st), fuel - 1)

\* The walk over the previous links run to its end.
RECURSIVE walkRun(_, _, _, _)
walkRun(ns, prev, id, p) ==
    IF id = NULL \/ Len(p) >= MaxPathLen THEN p
    ELSE walkRun(ns, prev, previousOf(prev, id), unshift(p, findNode(ns, id, 1)))

\* The result of a call that runs alone from the nodes and edges ns, es (the
\* random draws are in them).
aloneResult(im, ns, es, rt) ==
    IF im = "part_001"
    THEN LET st == solverRun1(es, rt,
                     [distances |-> initialDistances(ns),
                      previous |-> initialPrevious(ns),
                      visited |-> {}, queue |-> ns, exit |-> FALSE], MaxPasses)
             p == walkRun(ns, st.previous, "destination", << >>)
         IN  routeResult1(p, pathDistance(p, 1), rt)
    ELSE LET st == solverRun(adjacency(ns, es),
                     [distances |-> initialDistances(ns),
                      previous |-> initialPrevious(ns),
                      pq |-> enqueue(<< >>, "source", 0), exit |-> FALSE], MaxPasses)
             p == walkRun(ns, st.previous, "destination", << >>)
         IN  IF im = "part_000" THEN routeResult0(p, pathDistance(p, 1))
                                ELSE routeResult(p, pathDistance(p, 1))

\* C14: two invocations of findShortestPath whose steps are interleaved in
\* any order share no mutable state (nodes, edges, adjacency map, distances,
\* previous, priority queue are the call's own): each returns the result it
\* returns when it runs alone with the same random draws.
C14_Isolated ==
    \A c \in Calls :
        returned(c) =>
            result[c] = aloneResult(impl[c], nodes[c], edges[c], routeType[c])

\* The first call has returned while the second one is in the middle of its
\* solver loop, on a different graph.
C14_Witness ==
    /\ returned(1) /\ impl[1] = "lib" /\ Len(result[1].path) = 2
    /\ impl[2] = "lib" /\ pc[2] = "solve"
    /\ Len(pq[2]) >= 2 /\ distances[2]["destination"] # Infinity
    /\ nodes[1] # nodes[2]

\* C15: throughout the solver loop of findShortestPath in pathfinding.ts
\* (and when it is left) distances['source'] is 0 and previous['source'] is
\* null: the source never acquires a predecessor.
C15_SourceFixed ==
    \A c \in Calls :
        (impl[c] = "lib" /\ validInput(c) /\ pc[c] \in {"solve", "reconstruct"})
            => /\ distances[c]["source"] = 0
               /\ previous[c]["source"] = NULL

\* The solver state of call c, and the state one pass of its solver loop
\* leads to.
solverState(c) ==
    IF impl[c] = "part_001"
    THEN [distances |-> distances[c], previous |-> previous[c],
          visited |-> visited[c], queue |-> queue[c], exit |-> FALSE]
    ELSE [distances |-> distances[c], previous |-> previous[c],
          pq |-> pqOf(c), exit |-> FALSE]

afterPass(c) ==
    IF impl[c] = "part_001" THEN solverPass1(edges[c], routeType[c], solverState(c))
    ELSE solverPass(graph[c], solverState(c))

\* C16: relaxation updates a node only on strict improvement.  For every
\* node, the source and the nodes whose stored distance is 0 included, a pass
\* of the solver loop replaces the stored distance or the predecessor only
\* by a strictly smaller distance: no stored distance increases.
C16_StrictImprovement ==
    \A c \in Calls :
        (pc[c] = "solve" /\ validInput(c)) =>
            \A id \in DOMAIN distances[c] :
                (\/ afterPass(c).distances[id] # distances[c][id]
                 \/ afterPass(c).previous[id] # previous[c][id])
                => afterPass(c).distances[id] < distances[c][id]

\* e joins two nodes that are consecutive in the sequence chain.
joinsConsecutive(e, chain) ==
    \E i \in 1..(Len(chain) - 1) :
        {e.from, e.to} = {chain[i].id, chain[i + 1].id}

\* C17: under the chain connection policy (part_000 and part_001) the edges
\* connect only nodes that are consecutive in the sequence source,
\* waypoint_1, ..., waypoint_n, destination, and the path findShortestPath
\* returns is exactly that chain: every waypoint, in index order, between
\* source and destination.
C17_ChainOrder ==
    \A c \in Calls :
        (impl[c] \in {"part_000", "part_001"} /\ validInput(c)) =>
            /\ pc[c] \in {"init", "solve", "reconstruct", "done"} =>
                  \A k \in 1..Len(edges[c]) :
                      joinsConsecutive(edges[c][k], chainOrder(c))
            /\ returned(c) => ids(result[c].path) = ids(chainOrder(c))

\* The relaxations the solver of call c attempts when u is the current node,
\* as pairs << neighbour, weight >>: the entries of graph.get(u) in
\* pathfinding.ts and part_000, the edges with edge.from === u in part_001.
examined(c, u) ==
    IF impl[c] = "part_001"
    THEN {<< edges[c][k].to, edgeWeight1(edges[c][k], routeType[c]) >> :
              k \in {j \in 1..Len(edges[c]) : edges[c][j].from = u}}
    ELSE {<< graph[c][u][k].nodeId, graph[c][u][k].weight >> :
              k \in 1..Len(graph[c][u])}

\* C18 (as claimed): the solver treats every edge as bidirectional: for each
\* generated edge (u, v, w), v is relaxed from u and u is relaxed from v with
\* the same weight w, in pathfinding.ts and in part_001 alike.
C18_Bidirectional ==
    \A c \in Calls :
        pc[c] \in {"solve", "reconstruct", "done"} =>
            \A k \in 1..Len(edges[c]) :
                LET e == edges[c][k]
                    w == solverWeight(c, e)
                IN  /\ << e.to, w >> \in examined(c, e.from)
                    /\ << e.from, w >> \in examined(c, e.to)

\* C18 (amended): the solver of pathfinding.ts (and part_000) treats every
\* edge as bidirectional, each edge (u, v, w) being entered in the adjacency
\* list under u and under v with the same weight w; the solver of part_001
\* relaxes v from u only (edges.filter(edge => edge.from === current.id)),
\* never u from v.
C18_Mirrored ==
    \A c \in Calls :
        pc[c] \in {"solve", "reconstruct", "done"} =>
            \A k \in 1..Len(edges[c]) :
                LET e == edges[c][k]
                    w == solverWeight(c, e)
                IN  /\ << e.to, w >> \in examined(c, e.from)
                    /\ IF impl[c] = "part_001"
                       THEN \A x \in examined(c, e.to) : x[1] # e.from
                       ELSE << e.from, w >> \in examined(c, e.to)

\* A call of pathfinding.ts in which a node was relaxed against the direction
\* of its edge: the from node of an edge has the to node as its predecessor,
\* at the distance of the to node plus the weight of the edge.
C18_Witness ==
    \E c \in Calls :
        /\ impl[c] = "lib" /\ pc[c] = "solve" /\ validInput(c)
        /\ \E k \in 1..Len(edges[c]) :
              LET e == edges[c][k]
              IN  /\ e.from # "source" /\ e.weight > 0
                  /\ previous[c][e.from] = e.to
                  /\ distances[c][e.from] = distances[c][e.to] + e.weight

\* The value generateGraph of call c computes as numWaypoints.
numWaypointsOf(c) ==
    IF impl[c] = "part_000" THEN numWaypoints0(source[c], destination[c])
    ELSE numWaypoints(source[c], destination[c])

\* C19: generateGraph (pathfinding.ts, part_000) creates exactly n waypoint
\* nodes waypoint_1 .. waypoint_n, the i-th at interpolation ratio i / (n + 1)
\* between source and destination, plus the variation (at most one grid step
\* on either coordinate), where n is the value the code computes as
\* numWaypoints.
C19_WaypointCount ==
    \A c \in Calls :
        (/\ impl[c] \in queueImpls /\ validInput(c)
         /\ pc[c] \in {"init", "solve", "reconstruct", "done"})
        => LET n == numWaypointsOf(c)
               src == source[c]
               dst == destination[c]
           IN  /\ Len(nodes[c]) = n + 2
               /\ \A i \in 1..n :
                     LET w == nodes[c][i + 2]
                     IN  /\ w.id = waypointIds[i]
                         /\ Abs(w.lat - (src.lat + RoundDiv((dst.lat - src.lat) * i, n + 1))) <= 1
                         /\ Abs(w.lng - (src.lng + RoundDiv((dst.lng - src.lng) * i, n + 1))) <= 1

\* The nodes of ns whose id is id.
nodesWithId(ns, id) == {k \in 1..Len(ns) : ns[k].id = id}

\* C20: in every synthesized graph the nodes 'source' and 'destination' are
\* present (once each) and carry exactly the latitude and longitude the
\* caller supplied; the variation is applied to waypoints only.
C20_EndpointsExact ==
    \A c \in Calls :
        pc[c] \in {"init", "solve", "reconstruct", "done"} =>
            /\ Cardinality(nodesWithId(nodes[c], "source")) = 1
            /\ Cardinality(nodesWithId(nodes[c], "destination")) = 1
            /\ \A k \in nodesWithId(nodes[c], "source") :
                  SameCoordinate(nodes[c][k], source[c])
            /\ \A k \in nodesWithId(nodes[c], "destination") :
                  SameCoordinate(nodes[c][k], destination[c])

\* A graph of pathfinding.ts whose first waypoint was moved by the variation.
C20_Witness ==
    \E c \in Calls :
        /\ impl[c] = "lib" /\ pc[c] = "init" /\ validInput(c)
        /\ ~SameCoordinate(source[c], destination[c])
        /\ Len(nodes[c]) >= 3
        /\ ~SameCoordinate(nodes[c][3], waypoint(source[c], destination[c], 1, 50))

\* C21: every edge weight the solver uses is >= 0, for both route types and
\* every safety factor the code can draw (valid coordinates).
C21_WeightsNonNegative ==
    \A c \in Calls :
        (pc[c] \in {"init", "solve", "reconstruct", "done"} /\ validInput(c)) =>
            /\ \A k \in 1..Len(edges[c]) : solverWeight(c, edges[c][k]) >= 0
            /\ \A u \in DOMAIN graph[c] :
                  \A k \in 1..Len(graph[c][u]) : graph[c][u][k].weight >= 0

\* A 'safest' graph of pathfinding.ts in which the largest safety factor was
\* drawn for an edge of positive length.
C21_Witness ==
    \E c \in Calls :
        /\ impl[c] = "lib" /\ routeType[c] = "safest" /\ pc[c] = "solve"
        /\ validInput(c)
        /\ \E k \in 1..Len(edges[c]) :
              /\ edges[c][k].distance > 0
              /\ edges[c][k].weight = edges[c][k].distance * 804

\* C22: every edge of a synthesized graph references two node ids that exist
\* in the node list of the same graph, and no edge has from = to.
C22_EdgesWellFormed ==
    \A c \in Calls :
        pc[c] \in {"init", "solve", "reconstruct", "done"} =>
            \A k \in 1..Len(edges[c]) :
                /\ edges[c][k].from \in nodeIds(nodes[c])
                /\ edges[c][k].to \in nodeIds(nodes[c])
                /\ edges[c][k].from # edges[c][k].to

\* A complete graph of pathfinding.ts on four nodes (six edges), and so a
\* chain of part_000 exists on three.
C22_Witness ==
    \E c \in Calls :
        /\ impl[c] = "lib" /\ pc[c] = "init"
        /\ Len(nodes[c]) = 4 /\ Len(edges[c]) = 6

\* C23: the path findShortestPath returns is a simple path of the synthesized
\* graph: no node id occurs twice in it, and every two consecutive path nodes
\* are joined by an edge of the graph.
C23_SimplePath ==
    \A c \in Calls :
        returned(c) =>
            LET p == result[c].path
            IN  /\ noRepeat(ids(p))
                /\ \A i \in 1..(Len(p) - 1) :
                      \E k \in 1..Len(edges[c]) :
                          {edges[c][k].from, edges[c][k].to} = {p[i].id, p[i + 1].id}

\* A 'safest' call of pathfinding.ts returned a path on a graph with
\* waypoints.
C23_Witness ==
    \E c \in Calls :
        /\ returned(c) /\ impl[c] = "lib" /\ routeType[c] = "safest"
        /\ validInput(c) /\ Len(nodes[c]) >= 3
        /\ Len(result[c].path) >= 2 /\ totalDistance[c] > 0

\* The entries of a sequence of {element, priority} records, as a bag.
RECURSIVE entryBag(_)
entryBag(entries) ==
    IF entries = << >> THEN EmptyBag
    ELSE SetToBag({<< entries[1].element, entries[1].priority >>})
         (+) entryBag(Tail(entries))

\* C30: PriorityQueue.dequeue returns an element whose priority is minimal
\* among the elements queued (undefined when the queue is empty), elements
\* of equal priority leave in the order they were enqueued, and an element
\* enqueued several times is returned once per enqueue (the queue holds
\* exactly the enqueues not yet returned).
C30_DequeueMinFifo ==
    /\ lastOp.op = "dequeue" =>
          IF lastOp.from = << >> THEN lastOp.element = NULL
          ELSE LET k == leastPending(lastOp.from)
               IN  /\ lastOp.element = lastOp.from[k].element
                   /\ \A j \in 1..Len(lastOp.from) :
                         lastOp.from[k].priority <= lastOp.from[j].priority
    /\ lastOp.op # "" => entryBag(pq[1]) = entryBag(pending)

\* A dequeue on a queue that held two enqueues of the least priority and one
\* of a lesser priority enqueued before them: the earlier of the two left.
C30_Witness ==
    /\ lastOp.op = "dequeue"
    /\ Len(lastOp.from) = 3
    /\ lastOp.from[1].priority > lastOp.from[2].priority
    /\ lastOp.from[2].priority = lastOp.from[3].priority
    /\ lastOp.from[2].element # lastOp.from[3].element
    /\ lastOp.element = lastOp.from[2].element

\* C24 (as claimed): in the search box a searchLocations call that settles
\* stores and shows its results only if it was issued for the query the box
\* holds now: a response for an earlier query never overwrites the results,
\* and none shows results again after handleSearchResultClick hid them and
\* emptied the query.
C24_ResultsOfCurrentQuery ==
    lastResponse.state = "fulfilled" => lastResponse.query = lastResponse.typed

\* The sample cities a failed search for the query must resolve to.
sampleMatches(query) ==
    {sampleLocations[k] : k \in {j \in 1..Len(sampleLocations) :
        includes(toLowerCase(sampleLocations[j].name), toLowerCase(query))}}

\* C29: searchLocations never rejects; when the request fails, answers with
\* a non-ok status or cannot be mapped, it resolves to a list: the sample
\* cities whose name contains the query case-insensitively in pathfinding.ts,
\* the empty list in part_001.
C29_NeverRejects ==
    lastResponse.state # "" =>
        /\ lastResponse.state = "fulfilled"
        /\ lastResponse.response # "ok" =>
              IF impl[1] = "part_001" THEN lastResponse.value = << >>
              ELSE /\ {lastResponse.value[k] : k \in 1..Len(lastResponse.value)}
                        = sampleMatches(lastResponse.query)
                   /\ Len(lastResponse.value)
                        = Cardinality(sampleMatches(lastResponse.query))

\* A request of pathfinding.ts for "Lon" was answered with a non-ok status
\* and resolved to the one sample city of that name.
C29_Witness ==
    /\ impl[1] = "lib"
    /\ lastResponse.response = "notOk"
    /\ lastResponse.state = "fulfilled"
    /\ Len(lastResponse.value) = 1
    /\ lastResponse.value[1].lat = 10301

\* C25: at most one route calculation is in flight at any time; while one is,
\* isCalculating is true and the calculate button is disabled, so that
\* handleCalculateRoute cannot be started again before the running one has
\* set isCalculating back to false.
C25_OneInFlight ==
    /\ Len(calculation) <= 1
    /\ calculation # << >> => (isCalculating /\ ~canCalculateRoute)
    /\ calculation = << >> => ~isCalculating

\* A second calculation is waiting out its delay, source and destination
\* selected and the route of the first one on the page.
C25_Witness ==
    /\ Len(calculation) = 1
    /\ calculation[1].stage = "delay"
    /\ isCalculating
    /\ pageSource # NoLocation /\ pageDestination # NoLocation
    /\ route # NoResult

\* C26 (as claimed): every handleCalculateRoute that sets isCalculating to
\* true sets it back to false: the findShortestPath it calls comes back.  The
\* walk of findShortestPath over the previous links is deterministic, so it
\* comes back only if it never returns to a node it has passed: while
\* isCalculating is true the path under reconstruction holds no node twice.
C26_CalculationEnds ==
    (isCalculating /\ pc[1] = "reconstruct") => noRepeat(ids(path[1]))

\* C27 (as claimed): whenever the page holds a route, its path starts at the
\* selected source and ends at the selected destination, whatever selections,
\* route-type changes and calculations were made.
C27_RouteOfSelection ==
    route # NoResult =>
        /\ Len(route.path) >= 1
        /\ SameCoordinate(route.path[1], pageSource)
        /\ SameCoordinate(route.path[Len(route.path)], pageDestination)

\* C28: a map click sets a location only while selectionMode is 'source' or
\* 'destination', it sets the location of that mode only, to the point
\* clicked, and resets selectionMode to null (so that an activation of a
\* mode assigns at most one location by map click); a click with
\* selectionMode null changes nothing.
C28_MapClick ==
    lastClick.clicked =>
        /\ selectionMode = NULL
        /\ lastClick.mode = NULL =>
              pageSource = lastClick.source /\ pageDestination = lastClick.destination
        /\ lastClick.mode = "source" =>
              /\ SameCoordinate(pageSource, lastClick.latlng)
              /\ pageDestination = lastClick.destination
        /\ lastClick.mode = "destination" =>
              /\ SameCoordinate(pageDestination, lastClick.latlng)
              /\ pageSource = lastClick.source

\* A click in mode 'destination' has replaced the destination, the source
\* being selected.
C28_Witness ==
    /\ lastClick.clicked
    /\ lastClick.mode = "destination"
    /\ lastClick.source # NoLocation
    /\ lastClick.destination # NoLocation
    /\ pageDestination # lastClick.destination
    /\ selectionMode = NULL

\* The bearing 359 has been quantised by bearingToDirection.
C13_Witness ==
    /\ compass.by = "bearingToDirection"
    /\ inputBearing = 359
    /\ compass.label = "North"

====
